---- MODULE Spec2Model ----
(***************************************************************************)
(* Model of the outbound dialer core: DialerService (agent registry, lead  *)
(* selector, initiate_call), the HTTP commands of routes/dialer.py that    *)
(* drive it, the SipService AMI event handlers that reconcile Call rows,   *)
(* and PredictiveDialer._calculate_calls_needed.                           *)
(***************************************************************************)
EXTENDS Integers, Sequences, FiniteSets, TLC

VARIABLES
    now,                \* datetime.utcnow(), in minutes
    calls,              \* table calls: sequence of rows, row k has id k
    call_events,        \* table call_events: number of rows per call id
    agent_statuses,     \* DialerService.agent_statuses: agent_id -> AgentStatus
    active_campaigns,   \* DialerService.active_campaigns (keys)
    dialer_stats,       \* DialerService.dialer_stats: campaign_id -> total_calls
    active_calls,       \* SipService.active_calls: call_id -> call info
    ami_out,            \* Originate actions written to the AMI socket (call ids)
    last_contacted,     \* Lead.last_contacted per lead
    campaign,           \* the Campaign row (written by campaign CRUD only)
    last,               \* outcome of the last command or dialer iteration
    calc,               \* inputs and result of _calculate_calls_needed
    call_ended,         \* _notify_event_callbacks('call_ended') per call id
    hangups,            \* Hangup events delivered per channel: count, time of the last
    cycle,              \* PredictiveDialer._run: locals of the iteration in progress
    dialers,            \* dialer objects ever created: running flag, thread, position
    dialer_of,          \* DialerService.active_campaigns: campaign_id -> dialer
    requests,           \* start/stop requests in progress, per server thread
    lifelog,            \* start and stop commands completed, in order
    ami,                \* AsteriskAMIClient: flags, socket, counter, response_handlers
    reader,             \* the AMI byte stream: written, unread, read buffer, dispatched
    trail               \* AMI events applied to each call, in order

vars == <<now, calls, call_events, agent_statuses, active_campaigns,
          dialer_stats, active_calls, ami_out, last_contacted, campaign,
          last, calc, call_ended, hangups, cycle, dialers, dialer_of,
          requests, lifelog, ami, reader, trail>>

lifeVars == <<dialers, dialer_of, requests, lifelog>>

----------------------------------------------------------------------------
(* Bounds of the exploration *)

MaxCalls == 2
MaxTime == 1
MaxEvents == 2
MaxHistory == 3
MaxAgents == 3
MaxDeliveries == 2
MaxDialers == 2
MaxCommands == 3
MaxActions == 3
MaxInbox == 2
MaxTrail == 3
MaxMessages == 4
MaxChunk == 4
MaxEntries == 3
MaxHandlers == 3

(* None, for call ids (ids start at 1) and for timestamps *)
None == 0
NoTime == 0 - 1

----------------------------------------------------------------------------
(* Database content the engine reads but does not write: users, campaigns, *)
(* assignments and leads.                                                  *)

Users == {1, 2}

Role(u) == IF u = 2 THEN "supervisor" ELSE "agent"

Campaigns == {1}

(* Campaign rows the exploration starts from: status, dialer_mode,         *)
(* max_attempts and retry_delay_minutes, with the user ids of the          *)
(* campaign's assignments and the ids of its leads                         *)
CampaignRow(mode, attempts, delay) ==
    [status |-> "active", dialer_mode |-> mode, max_attempts |-> attempts,
     retry_delay_minutes |-> delay, agents |-> <<1>>, leads |-> <<1>>]

CampaignRows ==
    { CampaignRow("manual", 1, 1),
      CampaignRow("turbo", 1, 0),
      CampaignRow("turbo", 2, 1) }

DialerMode(c) == campaign.dialer_mode

CampaignStatus(c) == campaign.status

MaxAttempts(c) == campaign.max_attempts

RetryDelayMinutes(c) == campaign.retry_delay_minutes

Assignments ==
    [i \in 1..Len(campaign.agents) |->
        [campaign_id |-> 1, user_id |-> campaign.agents[i]]]

Leads == campaign.leads

LeadCampaign(l) == 1

LeadStatus(l) == IF l = 2 THEN "do_not_call" ELSE "new"

LeadPhone(l) == l

(* Lead.priority (default 1) and Lead.next_contact_date (NULL) *)
LeadPriority(l) == IF l = 3 THEN 2 ELSE 1

LeadNextContactDate(l) == NoTime

Channel(phone) == phone

Channels == {Channel(LeadPhone(Leads[i])) : i \in 1..Len(Leads)}

TerminalStatuses == {"busy", "no_answer", "failed", "completed"}

DialStatuses == {"ANSWER", "BUSY", "CONGESTION", "NOANSWER", "CANCEL", "CHANUNAVAIL"}

----------------------------------------------------------------------------
(* Helpers *)

Range(s) == {s[i] : i \in 1..Len(s)}

CallIds == 1..Len(calls)

AssignedAgents(c) ==
    LET sel == SelectSeq(Assignments, LAMBDA a : a.campaign_id = c)
    IN  [i \in 1..Len(sel) |-> sel[i].user_id]

NewAgentStatus(status) ==
    [status |-> status, current_call_id |-> None, last_call_end |-> NoTime,
     calls_today |-> 0, talk_time_today |-> 0]

Last(op, code, call_id) == [op |-> op, code |-> code, call_id |-> call_id]

----------------------------------------------------------------------------
(* DialerService: agent registry *)

(* DialerService.update_agent_status(agent_id, status, call_id=None) *)
UpdateAgentStatusKeepsCall(st, agent_id, status, call_id) ==
    LET base == IF agent_id \in DOMAIN st
                THEN [st[agent_id] EXCEPT !.status = status]
                ELSE NewAgentStatus(status)
        upd  == IF call_id # None
                THEN [base EXCEPT !.current_call_id = call_id]
                ELSE IF status = "available"
                THEN [base EXCEPT !.last_call_end = now]
                ELSE base
    IN  [a \in DOMAIN st \cup {agent_id} |-> IF a = agent_id THEN upd ELSE st[a]]

UpdateAgentStatus(st, agent_id, status, call_id) ==
    LET base == IF agent_id \in DOMAIN st
                THEN [st[agent_id] EXCEPT !.status = status]
                ELSE NewAgentStatus(status)
        upd  == IF call_id # None
                THEN [base EXCEPT !.current_call_id = call_id]
                ELSE IF status = "available"
                THEN [base EXCEPT !.current_call_id = None, !.last_call_end = now]
                ELSE base
    IN  [a \in DOMAIN st \cup {agent_id} |-> IF a = agent_id THEN upd ELSE st[a]]

(* DialerService.get_available_agents: the registry after the call (agents *)
(* not tracked yet are entered as available) ...                           *)
TrackAssigned(st, c) ==
    LET assigned == Range(AssignedAgents(c))
    IN  [a \in DOMAIN st \cup assigned |->
            IF a \in DOMAIN st THEN st[a] ELSE NewAgentStatus("available")]

(* ... and the list it returns, in assignment order *)
GetAvailableAgents(st, c) ==
    SelectSeq(AssignedAgents(c),
              LAMBDA a : a \notin DOMAIN st \/ st[a].status = "available")

----------------------------------------------------------------------------
(* DialerService.get_next_lead *)

CallsOfLead(l) == {k \in CallIds : calls[k].lead_id = l}

(* Call.query.filter_by(lead_id).order_by(started_at.desc()).first() *)
LastCallStart(l) ==
    LET S == {calls[k].started_at : k \in CallsOfLead(l)}
    IN  CHOOSE t \in S : \A u \in S : u <= t

LeadValidNoCooldown(c, l) ==
    /\ LeadCampaign(l) = c
    /\ LeadStatus(l) \in {"new", "callback", "interested"}
    /\ LeadPhone(l) # None
    /\ Cardinality(CallsOfLead(l)) < MaxAttempts(c)

LeadValid(c, l) ==
    /\ LeadCampaign(l) = c
    /\ LeadStatus(l) \in {"new", "callback", "interested"}
    /\ LeadPhone(l) # None
    /\ Cardinality(CallsOfLead(l)) < MaxAttempts(c)
    /\ \/ Cardinality(CallsOfLead(l)) = 0
       \/ ~(now < LastCallStart(l) + RetryDelayMinutes(c))

(* valid_leads[0] if valid_leads else None *)
GetNextLead(c) ==
    LET valid == SelectSeq(Leads, LAMBDA l : LeadValid(c, l))
    IN  IF Len(valid) > 0 THEN valid[1] ELSE None

----------------------------------------------------------------------------
(* DialerService.initiate_call and SipService.originate_call *)

NewCall(c, l, a) ==
    [lead_id |-> l, campaign_id |-> c, agent_id |-> a,
     phone_number |-> LeadPhone(l), call_status |-> "initiated",
     started_at |-> now, answered_at |-> NoTime, ended_at |-> NoTime,
     duration_seconds |-> NoTime]

(* self.active_calls[call_id] = {...}: a dict keeps the position of a key  *)
(* it already holds; ids are handed out in increasing order.               *)
StoreActive(ac, k, l) ==
    [x \in DOMAIN ac \cup {k} |->
        IF x = k THEN [channel |-> Channel(LeadPhone(l))] ELSE ac[x]]

(* del self.active_calls[call_id] *)
KeepActive(ac, k) == ac

DelActive(ac, k) == [x \in DOMAIN ac \ {k} |-> ac[x]]

BumpStats(ds, c) ==
    IF c \in DOMAIN ds THEN [ds EXCEPT ![c] = @ + 1] ELSE ds

(* One run of initiate_call(campaign_id, lead_id, agent_id), called by     *)
(* command or dialer op with the registry as st.                           *)
(* ok: originate_call returned True (an active                             *)
(* configuration, an authenticated client, a successful socket write).     *)
(* fault: the db.session.commit() that raised, if any; the except clause   *)
(* then rolls the session back and returns None.                           *)
InitiateCallRun(op, st, c, l, a, ok, fault) ==
    LET k  == Len(calls) + 1
        on == UpdateAgentStatus(st, a, "on_call", k)
    IN
    /\ fault \in (IF ok THEN {"none", "commit_call", "commit_lead"}
                        ELSE {"none", "commit_failed"})
    /\ active_campaigns' = active_campaigns
    /\ now' = now
    /\ call_ended' = call_ended
    /\ IF ok
       THEN /\ ami_out' = Append(ami_out, k)
            /\ active_calls' = StoreActive(active_calls, k, l)
            /\ agent_statuses' = on
            /\ calls' = IF fault = "commit_call" THEN calls
                        ELSE Append(calls, NewCall(c, l, a))
            /\ last_contacted' = IF fault = "none"
                                 THEN [last_contacted EXCEPT ![l] = now]
                                 ELSE last_contacted
            /\ dialer_stats' = IF fault = "none" THEN BumpStats(dialer_stats, c)
                               ELSE dialer_stats
            /\ last' = IF fault = "none"
                       THEN Last(op, "initiated", k)
                       ELSE Last(op, "raised", None)
       ELSE /\ ami_out' = ami_out
            /\ active_calls' = active_calls
            /\ last_contacted' = last_contacted
            /\ dialer_stats' = dialer_stats
            /\ IF fault = "none"
               THEN /\ calls' = Append(calls, [NewCall(c, l, a) EXCEPT
                                                 !.call_status = "failed"])
                    /\ agent_statuses' = UpdateAgentStatus(on, a, "available", None)
                    /\ last' = Last(op, "originate_failed", None)
               ELSE /\ calls' = calls
                    /\ agent_statuses' = on
                    /\ last' = Last(op, "raised", None)
    /\ call_events' = [x \in 1..Len(calls') |->
                          IF x \in DOMAIN call_events THEN call_events[x] ELSE 0]

InitiateCall(op, st, c, l, a, ok, fault) ==
    /\ Len(calls) < MaxCalls
    /\ Len(ami_out) < MaxCalls
    /\ InitiateCallRun(op, st, c, l, a, ok, fault)

----------------------------------------------------------------------------
(* Commands of routes/dialer.py *)

IsAssigned(c, u) == \E i \in 1..Len(Assignments) :
                        Assignments[i] = [campaign_id |-> c, user_id |-> u]

LeadIds == Range(Leads)

Reject(op, code) ==
    /\ last' = Last(op, code, None)
    /\ UNCHANGED <<now, calls, call_events, agent_statuses, active_campaigns,
                   dialer_stats, active_calls, ami_out, last_contacted,
                   call_ended>>

(* POST /dialer/campaigns/<id>/start, then DialerService.start_campaign_dialer *)
StartCampaignDialer(c) ==
    /\ CampaignStatus(c) = "active"
    /\ Len(AssignedAgents(c)) > 0
    /\ \E l \in LeadIds : LeadCampaign(l) = c
    /\ c \notin active_campaigns
    /\ active_campaigns' = active_campaigns \cup {c}
    /\ dialer_stats' = [x \in DOMAIN dialer_stats \cup {c} |->
                           IF x = c THEN 0 ELSE dialer_stats[x]]
    /\ last' = Last("start", "started", None)
    /\ UNCHANGED <<now, calls, call_events, agent_statuses, active_calls,
                   ami_out, last_contacted, call_ended>>

(* PUT /dialer/agent/status *)
UpdateAgentStatusCmd(u, status) ==
    /\ status \in {"available", "busy", "offline"}
    /\ agent_statuses' = UpdateAgentStatus(agent_statuses, u, status, None)
    /\ last' = Last("update_agent_status", "ok", None)
    /\ UNCHANGED <<now, calls, call_events, active_campaigns, dialer_stats,
                   active_calls, ami_out, last_contacted, call_ended>>

(* The checks of POST /dialer/manual-call by user u, in their order: the   *)
(* error code of the first that fails, "" when all pass                    *)
ManualCallError(u, l, c) ==
    IF DialerMode(c) # "manual"
    THEN "INVALID_DIALER_MODE"
    ELSE IF LeadCampaign(l) # c
    THEN "LEAD_NOT_FOUND"
    ELSE IF Role(u) = "agent" /\ ~IsAssigned(c, u)
    THEN "ACCESS_DENIED"
    ELSE IF u \in DOMAIN agent_statuses /\ agent_statuses[u].status # "available"
    THEN "AGENT_NOT_AVAILABLE"
    ELSE IF c \notin active_campaigns
    THEN "DIALER_NOT_RUNNING"
    ELSE ""

(* POST /dialer/manual-call by user u, then ManualDialer.manual_call *)
ManualCall(u, l, c, ok, fault) ==
    IF ManualCallError(u, l, c) # ""
    THEN Reject("manual_call", ManualCallError(u, l, c))
    ELSE InitiateCall("manual_call", agent_statuses, c, l, u, ok, fault)

----------------------------------------------------------------------------
(* TurboDialer._run: one iteration of the loop *)

TurboIteration(c, ok, fault) ==
    LET agents == GetAvailableAgents(agent_statuses, c)
        lead   == GetNextLead(c)
    IN
    /\ IF Len(agents) > 0 /\ lead # None
       THEN InitiateCall("turbo", TrackAssigned(agent_statuses, c), c, lead,
                         agents[1], ok, fault)
       ELSE /\ agent_statuses' = TrackAssigned(agent_statuses, c)
            /\ last' = Last("turbo", "idle", None)
            /\ UNCHANGED <<now, calls, call_events, active_campaigns,
                           dialer_stats, active_calls, ami_out, last_contacted,
                           call_ended>>

TurboTick(c, ok, fault) ==
    /\ c \in active_campaigns
    /\ DialerMode(c) = "turbo"
    /\ TurboIteration(c, ok, fault)

----------------------------------------------------------------------------
(* SipService: AMI event handlers *)

(* for call_id, call_info in self.active_calls.items(): first entry whose  *)
(* channel is one of chs                                                   *)
FindCall(chs) ==
    LET M == {k \in DOMAIN active_calls : active_calls[k].channel \in chs}
    IN  IF M = {} THEN None ELSE CHOOSE k \in M : \A j \in M : k <= j

(* Number of rows of call_events *)
TotalEvents ==
    LET RECURSIVE Sum(_)
        Sum(n) == IF n = 0 THEN 0 ELSE call_events[n] + Sum(n - 1)
    IN  Sum(Len(call_events))

(* Call.calculate_duration *)
CalculateDurationSkipped(call) == call

CalculateDuration(call) ==
    IF call.started_at # NoTime /\ call.ended_at # NoTime
    THEN [call EXCEPT !.duration_seconds = call.ended_at - call.started_at]
    ELSE call

(* The event reached no Call row: no entry for the channel, or the entry's *)
(* row does not exist (Call.query.get returned None).                      *)
EventIgnored ==
    UNCHANGED <<now, calls, call_events, agent_statuses, active_campaigns,
                dialer_stats, active_calls, ami_out, last_contacted, last,
                call_ended>>

(* What a handler writes: the Call row, one CallEvent, the in-flight map; *)
(* event_type is what it hands to _notify_event_callbacks                 *)
EventWritten(k, call, ac, event_type) ==
    /\ calls' = [calls EXCEPT ![k] = call]
    /\ call_events' = [call_events EXCEPT ![k] = @ + 1]
    /\ active_calls' = ac
    /\ call_ended' = IF event_type = "call_ended"
                     THEN [call_ended EXCEPT ![k] = @ + 1]
                     ELSE call_ended
    /\ UNCHANGED <<now, agent_statuses, active_campaigns, dialer_stats,
                   ami_out, last_contacted, last>>

EventApplied(k, call, ac, event_type) ==
    /\ TotalEvents < MaxEvents
    /\ EventWritten(k, call, ac, event_type)

(* What a handler found and decided: the call of the first entry of the   *)
(* in-flight map on the channel (k is None when there is none or its row  *)
(* is missing), the row it commits, the map it leaves                      *)
NoEffect == [k |-> None]

Effect(k, call, ac, event_type) ==
    IF k = None \/ k \notin CallIds
    THEN NoEffect
    ELSE [k |-> k, call |-> call, ac |-> ac, event_type |-> event_type]

EventHandled(e) ==
    IF e.k = None
    THEN EventIgnored
    ELSE EventApplied(e.k, e.call, e.ac, e.event_type)

(* SipService._handle_hangup *)
Hangup(ch) ==
    LET k == FindCall({ch}) IN
    IF k = None \/ k \notin CallIds
    THEN NoEffect
    ELSE Effect(k,
            CalculateDuration([calls[k] EXCEPT !.call_status = "completed",
                                               !.ended_at = now]),
            DelActive(active_calls, k), "call_ended")

HandleHangup(ch) == EventHandled(Hangup(ch))

(* SipService._handle_bridge *)
Bridge(ch1, ch2) ==
    LET k == FindCall({ch1, ch2}) IN
    IF k = None \/ k \notin CallIds
    THEN NoEffect
    ELSE Effect(k,
            [calls[k] EXCEPT !.call_status = "answered", !.answered_at = now],
            active_calls, "call_answered")

HandleBridge(ch1, ch2) == EventHandled(Bridge(ch1, ch2))

(* SipService._handle_dial_begin *)
DialBegin(ch) ==
    LET k == FindCall({ch}) IN
    IF k = None \/ k \notin CallIds
    THEN NoEffect
    ELSE Effect(k,
            [calls[k] EXCEPT !.call_status = "ringing"],
            active_calls, "call_ringing")

HandleDialBegin(ch) == EventHandled(DialBegin(ch))

DialEndCallCancelFails(call, dial_status) ==
    IF dial_status = "ANSWER"
    THEN [call EXCEPT !.call_status = "answered", !.answered_at = now]
    ELSE IF dial_status \in {"BUSY", "CONGESTION"}
    THEN [call EXCEPT !.call_status = "busy", !.ended_at = now]
    ELSE IF dial_status = "NOANSWER"
    THEN [call EXCEPT !.call_status = "no_answer", !.ended_at = now]
    ELSE [call EXCEPT !.call_status = "failed", !.ended_at = now]

DialEndCall(call, dial_status) ==
    IF dial_status = "ANSWER"
    THEN [call EXCEPT !.call_status = "answered", !.answered_at = now]
    ELSE IF dial_status \in {"BUSY", "CONGESTION"}
    THEN [call EXCEPT !.call_status = "busy", !.ended_at = now]
    ELSE IF dial_status \in {"NOANSWER", "CANCEL"}
    THEN [call EXCEPT !.call_status = "no_answer", !.ended_at = now]
    ELSE [call EXCEPT !.call_status = "failed", !.ended_at = now]

(* SipService._handle_dial_end *)
DialEnd(ch, dial_status) ==
    LET k == FindCall({ch}) IN
    IF k = None \/ k \notin CallIds
    THEN NoEffect
    ELSE Effect(k,
            DialEndCall(calls[k], dial_status),
            IF dial_status # "ANSWER" THEN DelActive(active_calls, k)
            ELSE active_calls, "dial_end")

HandleDialEnd(ch, dial_status) == EventHandled(DialEnd(ch, dial_status))

----------------------------------------------------------------------------
(* The engine *)

Tick ==
    /\ now < MaxTime
    /\ now' = now + 1
    /\ UNCHANGED <<calls, call_events, agent_statuses, active_campaigns,
                   dialer_stats, active_calls, ami_out, last_contacted, last,
                   call_ended>>

NoCalc == [history |-> <<>>, available |-> 0, on_call |-> <<>>, ratio |-> 0,
           done |-> FALSE, raised |-> FALSE, value |-> 0]

ServerThreads == {1, 2}

IdleRequest == [kind |-> "none", pc |-> "idle", c |-> None, d |-> None]

NoLife ==
    /\ dialers = <<>>
    /\ dialer_of = <<>>
    /\ requests = [r \in ServerThreads |-> IdleRequest]
    /\ lifelog = <<>>

(* The client after connect(), authenticate() and start_event_loop():    *)
(* socket is the state of the TCP socket, inbox the messages received on  *)
(* it that _read_response has not returned yet, callback_of the call_id   *)
(* bound in the callback given for an action (None for another callback), *)
(* completions the responses each callback has been called with, events   *)
(* the messages handed to the handlers of event_handlers, action_ids the   *)
(* ActionIDs _get_action_id has returned (counter and time).               *)
InitAmi == [connected |-> TRUE, authenticated |-> TRUE, running |-> TRUE,
            socket |-> "open", action_id_counter |-> 0,
            response_handlers |-> {}, callback_of |-> <<>>,
            completions |-> <<>>, inbox |-> <<>>, events |-> <<>>,
            action_ids |-> <<>>, event_handlers |-> <<>>]

(* Nothing written by Asterisk yet; buffer is the local of _read_response *)
(* and of the event loop thread inside _handle_message: the events parsed  *)
(* and not handled yet, the dict iterator of the handler in progress, what *)
(* became of each handled event                                            *)
NoHandling == [busy |-> FALSE]

InitReader == [sent |-> <<>>, stream |-> <<>>, buffer |-> <<>>,
               dispatched |-> <<>>, arrived |-> <<>>, handling |-> NoHandling,
               outcomes |-> <<>>]

NoTrail == [k \in 1..MaxCalls |-> <<>>]

NoCycle == [phase |-> "idle", history |-> <<>>, available |-> <<>>,
            to_make |-> 0, i |-> 0, originated |-> 0, failed |-> 0,
            error |-> "", chosen |-> <<>>]

Init ==
    /\ campaign \in CampaignRows
    /\ now = 0
    /\ calls = <<>>
    /\ call_events = <<>>
    /\ agent_statuses = <<>>
    /\ active_campaigns = {}
    /\ dialer_stats = <<>>
    /\ active_calls = <<>>
    /\ ami_out = <<>>
    /\ last_contacted = [l \in LeadIds |-> NoTime]
    /\ last = Last("init", "", None)
    /\ calc = NoCalc
    /\ call_ended = [k \in 1..MaxCalls |-> 0]
    /\ hangups = [ch \in Channels |-> [count |-> 0, at |-> NoTime]]
    /\ cycle = NoCycle
    /\ NoLife
    /\ ami = InitAmi
    /\ reader = InitReader
    /\ trail = NoTrail

Commands ==
    \/ \E c \in Campaigns : StartCampaignDialer(c)
    \/ \E u \in Users, s \in {"available", "busy", "offline"} :
          UpdateAgentStatusCmd(u, s)

AmiEvents ==
    \/ \E ch \in Channels : HandleHangup(ch)
    \/ \E ch \in Channels : HandleDialBegin(ch)
    \/ \E ch \in Channels, ds \in DialStatuses : HandleDialEnd(ch, ds)
    \/ \E ch1 \in Channels, ch2 \in Channels : HandleBridge(ch1, ch2)

(* The database commits of initiate_call succeed *)
Next ==
    /\ \/ Tick
       \/ Commands
       \/ AmiEvents
       \/ \E u \in Users, l \in LeadIds, c \in Campaigns, ok \in BOOLEAN :
             ManualCall(u, l, c, ok, "none")
       \/ \E c \in Campaigns, ok \in BOOLEAN : TurboTick(c, ok, "none")
    /\ UNCHANGED <<campaign, calc, hangups, cycle, lifeVars, ami, reader, trail>>

Spec == Init /\ [][Next]_vars

(* A db.session.commit() of initiate_call may raise *)
Faults == {"none", "commit_call", "commit_lead", "commit_failed"}

NextFaults ==
    /\ \/ Commands
       \/ AmiEvents
       \/ \E u \in Users, l \in LeadIds, c \in Campaigns, ok \in BOOLEAN,
             f \in Faults : ManualCall(u, l, c, ok, f)
       \/ \E c \in Campaigns, ok \in BOOLEAN, f \in Faults : TurboTick(c, ok, f)
    /\ UNCHANGED <<campaign, calc, hangups, cycle, lifeVars, ami, reader, trail>>

SpecFaults == Init /\ [][NextFaults]_vars

----------------------------------------------------------------------------
(* Redelivery of Hangup events: the AMI may deliver the same Hangup for a  *)
(* channel more than once; hangups counts the deliveries.                  *)

DeliverHangup(ch) ==
    /\ hangups[ch].count < MaxDeliveries
    /\ HandleHangup(ch)
    /\ hangups' = [hangups EXCEPT ![ch] = [count |-> @.count + 1, at |-> now]]

NextReplay ==
    /\ \/ /\ \/ Tick
             \/ Commands
             \/ \E u \in Users, l \in LeadIds, c \in Campaigns, ok \in BOOLEAN :
                   ManualCall(u, l, c, ok, "none")
             \/ \E c \in Campaigns, ok \in BOOLEAN : TurboTick(c, ok, "none")
          /\ UNCHANGED hangups
       \/ \E ch \in Channels : DeliverHangup(ch)
    /\ UNCHANGED <<campaign, calc, cycle, lifeVars, ami, reader, trail>>

SpecReplay == Init /\ [][NextReplay]_vars

----------------------------------------------------------------------------
(* PredictiveDialer._calculate_calls_needed.  history is self.call_history *)
(* (outcome, duration); on_call lists, for the agents that are on_call,    *)
(* the seconds their current call has lasted; ratio is predictive_ratio in *)
(* hundredths.  Quotients are exact.                                       *)

RECURSIVE SumDurations(_)
SumDurations(h) ==
    IF Len(h) = 0 THEN 0 ELSE h[1].duration + SumDurations(Tail(h))

Min(a, b) == IF a < b THEN a ELSE b

Max(a, b) == IF a < b THEN b ELSE a

(* answered_calls: outcome == 'answered' and duration > 0 *)
AnsweredCalls(history) ==
    SelectSeq(history, LAMBDA c : c.outcome = "answered" /\ c.duration > 0)

(* _predict_agents_becoming_free: call_duration >= avg_call_duration * 0.8, *)
(* avg = statistics.mean(durations), 180 without answered calls            *)
AgentsBecomingFree(history, on_call) ==
    LET ans == AnsweredCalls(history)
        num == IF Len(ans) > 0 THEN SumDurations(ans) ELSE 180
        den == IF Len(ans) > 0 THEN Len(ans) ELSE 1
    IN  Len(SelectSeq(on_call, LAMBDA d : 10 * d * den >= 8 * num))

AnsweredCount(history) ==
    Len(SelectSeq(history, LAMBDA c : c.outcome = "answered"))

(* answer_rate == 0 with a recorded history: the division at line 459 raises *)
CalcRaises(history, available) ==
    /\ available > 0
    /\ Len(history) > 0
    /\ AnsweredCount(history) = 0

(* The value returned when the division does not raise.  answer_rate is    *)
(* answered/len(history), or 0.3 = 3/10 without history.                   *)
CalcValue(history, available, on_call, ratio) ==
    IF available = 0 THEN 0
    ELSE
    LET total  == available + AgentsBecomingFree(history, on_call)
        rnum   == IF Len(history) > 0 THEN AnsweredCount(history) ELSE 3
        rden   == IF Len(history) > 0 THEN Len(history) ELSE 10
        needed == (total * ratio * rden) \div (100 * rnum)
        capped == Min(needed, Min(available * 3, 10))
    IN  Max(0, capped)

CalculateCallsNeeded ==
    /\ ~calc.done
    /\ calc' = [calc EXCEPT
                  !.done = TRUE,
                  !.raised = CalcRaises(calc.history, calc.available),
                  !.value = IF CalcRaises(calc.history, calc.available) THEN 0
                            ELSE CalcValue(calc.history, calc.available,
                                           calc.on_call, calc.ratio)]
    /\ UNCHANGED <<now, calls, call_events, agent_statuses, active_campaigns,
                   dialer_stats, active_calls, ami_out, last_contacted,
                   campaign, last, call_ended, hangups, cycle, lifeVars, ami, reader, trail>>

HistoryItems == { [outcome |-> "answered", duration |-> 0],
                  [outcome |-> "answered", duration |-> 100],
                  [outcome |-> "not_answered", duration |-> 0] }

OnCallSeconds == {79, 80, 144}

SeqsUpTo(S, n) == UNION {[1..m -> S] : m \in 0..n}

InitCalc ==
    /\ campaign \in {r \in CampaignRows : r.dialer_mode = "manual"}
    /\ now = 0
    /\ calls = <<>>
    /\ call_events = <<>>
    /\ agent_statuses = <<>>
    /\ active_campaigns = {}
    /\ dialer_stats = <<>>
    /\ active_calls = <<>>
    /\ ami_out = <<>>
    /\ last_contacted = [l \in LeadIds |-> NoTime]
    /\ last = Last("init", "", None)
    /\ call_ended = [k \in 1..MaxCalls |-> 0]
    /\ hangups = [ch \in Channels |-> [count |-> 0, at |-> NoTime]]
    /\ cycle = NoCycle
    /\ NoLife
    /\ ami = InitAmi
    /\ reader = InitReader
    /\ trail = NoTrail
    /\ \E h \in SeqsUpTo(HistoryItems, MaxHistory), a \in 0..MaxAgents,
          oc \in SeqsUpTo(OnCallSeconds, 2), r \in {100, 120, 200} :
          calc = [history |-> h, available |-> a, on_call |-> oc, ratio |-> r,
                  done |-> FALSE, raised |-> FALSE, value |-> 0]

SpecCalc == InitCalc /\ [][CalculateCallsNeeded]_vars

----------------------------------------------------------------------------
(* PredictiveDialer._run: one iteration of the while loop, one action per  *)
(* step.  The campaign's calls of the last 24 hours (call_history after    *)
(* _update_metrics) are drawn at the start.                                *)

(* Campaign.predictive_ratio is Numeric(3, 2): NULL (None) or a Decimal,   *)
(* here in hundredths                                                      *)
PredictiveRows ==
    { [status |-> "active", dialer_mode |-> "predictive", max_attempts |-> 1,
       retry_delay_minutes |-> 1, agents |-> <<1, 2>>,
       leads |-> <<1, 3, 4, 5, 6, 7>>, predictive_ratio |-> r] :
      r \in {None, 120} }

PredictiveRatio(c) == campaign.predictive_ratio

CycleHistories ==
    { <<>>,
      << [outcome |-> "answered", duration |-> 100] >>,
      << [outcome |-> "not_answered", duration |-> 0] >>,
      << [outcome |-> "answered", duration |-> 100],
         [outcome |-> "not_answered", duration |-> 0],
         [outcome |-> "not_answered", duration |-> 0],
         [outcome |-> "not_answered", duration |-> 0] >> }

(* Seconds the current call of each on_call agent has lasted *)
RECURSIVE OnCallDurations(_, _)
OnCallDurations(st, agents) ==
    IF agents = {} THEN <<>>
    ELSE LET a    == CHOOSE x \in agents : \A y \in agents : x <= y
             rest == OnCallDurations(st, agents \ {a})
         IN  IF /\ st[a].status = "on_call"
                /\ st[a].current_call_id \in CallIds
                /\ calls[st[a].current_call_id].started_at # NoTime
             THEN <<60 * (now - calls[st[a].current_call_id].started_at)>> \o rest
             ELSE rest

CycleFrame ==
    UNCHANGED <<now, calls, call_events, active_campaigns, dialer_stats,
                active_calls, ami_out, last_contacted, last, call_ended>>

(* _update_metrics, get_available_agents, _calculate_calls_needed.  With   *)
(* predictive_ratio a Decimal, total_agents * predictive_ratio is a        *)
(* Decimal and dividing it by the float answer_rate raises TypeError.      *)
PredictiveBegin(c) ==
    LET st == TrackAssigned(agent_statuses, c)
        av == GetAvailableAgents(agent_statuses, c)
        oc == OnCallDurations(st, DOMAIN st)
    IN
    /\ c \in active_campaigns
    /\ DialerMode(c) = "predictive"
    /\ cycle.phase = "idle"
    /\ agent_statuses' = st
    /\ CycleFrame
    /\ cycle' =
         IF Len(av) = 0
         THEN [cycle EXCEPT !.phase = "done"]
         ELSE IF PredictiveRatio(c) # None
         THEN [cycle EXCEPT !.phase = "raised", !.available = av,
                            !.error = "TypeError"]
         ELSE IF CalcRaises(cycle.history, Len(av))
         THEN [cycle EXCEPT !.phase = "raised", !.available = av,
                            !.error = "ZeroDivisionError"]
         ELSE [cycle EXCEPT !.phase = "loop", !.available = av,
                            !.to_make = CalcValue(cycle.history, Len(av), oc, 120)]

(* _select_best_agent: the only agent, or the best of randomised scores;   *)
(* max() of no agent raises ValueError                                     *)
BestAgents(available) == Range(available)

(* One pass of "for _ in range(calls_to_make)" *)
PredictiveStep(c, ok) ==
    LET lead == GetNextLead(c) IN
    /\ cycle.phase = "loop"
    /\ IF cycle.i = cycle.to_make \/ lead = None
       THEN /\ cycle' = [cycle EXCEPT !.phase = "done"]
            /\ UNCHANGED agent_statuses
            /\ CycleFrame
       ELSE IF Len(cycle.available) = 0
       THEN /\ cycle' = [cycle EXCEPT !.phase = "raised", !.error = "ValueError"]
            /\ UNCHANGED agent_statuses
            /\ CycleFrame
       ELSE \E a \in BestAgents(cycle.available) :
            /\ InitiateCall("predictive", agent_statuses, c, lead, a, ok, "none")
            /\ cycle' = [cycle EXCEPT
                  !.i = @ + 1,
                  !.chosen = Append(@, a),
                  !.originated = IF ok THEN @ + 1 ELSE @,
                  !.failed = IF ok THEN @ ELSE @ + 1,
                  !.available = IF ok THEN SelectSeq(@, LAMBDA x : x # a) ELSE @]

InitPredictive ==
    /\ now = 0
    /\ calls = <<>>
    /\ call_events = <<>>
    /\ agent_statuses = <<>>
    /\ active_campaigns = {}
    /\ dialer_stats = <<>>
    /\ active_calls = <<>>
    /\ ami_out = <<>>
    /\ campaign \in PredictiveRows
    /\ last_contacted = [l \in LeadIds |-> NoTime]
    /\ last = Last("init", "", None)
    /\ calc = NoCalc
    /\ call_ended = [k \in 1..MaxCalls |-> 0]
    /\ hangups = [ch \in Channels |-> [count |-> 0, at |-> NoTime]]
    /\ \E h \in CycleHistories : cycle = [NoCycle EXCEPT !.history = h]
    /\ NoLife
    /\ ami = InitAmi
    /\ reader = InitReader
    /\ trail = NoTrail

NextPredictive ==
    /\ \/ Commands /\ UNCHANGED cycle
       \/ \E c \in Campaigns : PredictiveBegin(c)
       \/ \E c \in Campaigns, ok \in BOOLEAN : PredictiveStep(c, ok)
    /\ UNCHANGED <<campaign, calc, hangups, lifeVars, ami, reader, trail>>

SpecPredictive == InitPredictive /\ [][NextPredictive]_vars

----------------------------------------------------------------------------
(* Dialer lifecycle: the start and stop commands run on server threads,    *)
(* one step per stretch of code between two points where another thread    *)
(* can run; every dialer object has its own thread (BaseDialer.start).     *)

LifecycleRows ==
    { CampaignRow("turbo", 2, 0),
      CampaignRow("manual", 1, 1),
      [CampaignRow("turbo", 2, 0) EXCEPT !.status = "paused"],
      [CampaignRow("turbo", 2, 0) EXCEPT !.agents = <<>>],
      [CampaignRow("turbo", 2, 0) EXCEPT !.leads = <<>>] }

(* BaseDialer.__init__; cleared records that BaseDialer.stop has assigned  *)
(* running = False, stop_returned that the stop command has returned       *)
NewDialer(c) ==
    [campaign_id |-> c, running |-> FALSE, thread |-> "none", pc |-> "top",
     cleared |-> FALSE, stop_returned |-> FALSE, late |-> FALSE]

LiveTasks(ds, c) ==
    {d \in 1..Len(ds) : ds[d].campaign_id = c /\ ds[d].thread = "alive"}

InProgress == {r \in ServerThreads : requests[r].pc # "idle"}

LifeFrame ==
    UNCHANGED <<now, calls, call_events, agent_statuses, active_calls,
                ami_out, last_contacted, call_ended>>

(* Lead.query.filter_by(campaign_id=campaign_id).count() == 0 *)
AssumeLeads(c) == TRUE

HasLeads(c) == \E l \in LeadIds : LeadCampaign(l) = c

(* The start route up to "if campaign_id in self.active_campaigns" *)
StartRequest(r, c) ==
    /\ requests[r].pc = "idle"
    /\ Len(lifelog) + Cardinality(InProgress) < MaxCommands
    /\ LifeFrame
    /\ UNCHANGED <<dialers, dialer_of, active_campaigns, dialer_stats>>
    /\ IF CampaignStatus(c) # "active"
       THEN /\ last' = Last("start", "CAMPAIGN_NOT_ACTIVE", None)
            /\ UNCHANGED <<requests, lifelog>>
       ELSE IF Len(AssignedAgents(c)) = 0
       THEN /\ last' = Last("start", "NO_AGENTS_ASSIGNED", None)
            /\ UNCHANGED <<requests, lifelog>>
       ELSE IF ~HasLeads(c)
       THEN /\ last' = Last("start", "NO_LEADS_AVAILABLE", None)
            /\ UNCHANGED <<requests, lifelog>>
       ELSE IF c \in DOMAIN dialer_of
       THEN /\ last' = Last("start", "started", None)
            /\ lifelog' = Append(lifelog, "start")
            /\ UNCHANGED requests
       ELSE /\ requests' = [requests EXCEPT ![r] =
                               [kind |-> "start", pc |-> "create", c |-> c, d |-> None]]
            /\ UNCHANGED <<last, lifelog>>

(* ... and from there: create the dialer, register it, reset the           *)
(* statistics                                                              *)
StartCreate(r) ==
    LET c == requests[r].c
        d == Len(dialers) + 1
    IN
    /\ requests[r].pc = "create"
    /\ Len(dialers) < MaxDialers
    /\ dialers' = Append(dialers, NewDialer(c))
    /\ dialer_of' = [x \in DOMAIN dialer_of \cup {c} |->
                        IF x = c THEN d ELSE dialer_of[x]]
    /\ active_campaigns' = active_campaigns \cup {c}
    /\ dialer_stats' = [x \in DOMAIN dialer_stats \cup {c} |->
                           IF x = c THEN 0 ELSE dialer_stats[x]]
    /\ requests' = [requests EXCEPT ![r] = [@ EXCEPT !.pc = "start", !.d = d]]
    /\ UNCHANGED <<last, lifelog>>
    /\ LifeFrame

(* dialer.start(): nothing if running is set, else running = True and the  *)
(* thread is started; the command returns                                  *)
StartThread(r) ==
    LET d == requests[r].d IN
    /\ requests[r].pc = "start"
    /\ dialers' = IF dialers[d].running THEN dialers
                  ELSE [dialers EXCEPT ![d].running = TRUE,
                                       ![d].thread = "alive"]
    /\ last' = Last("start", "started", None)
    /\ lifelog' = Append(lifelog, "start")
    /\ requests' = [requests EXCEPT ![r] = IdleRequest]
    /\ UNCHANGED <<dialer_of, active_campaigns, dialer_stats>>
    /\ LifeFrame

(* stop_campaign_dialer up to thread.join: BaseDialer.stop clears running *)
StopRequest(r, c) ==
    /\ requests[r].pc = "idle"
    /\ Len(lifelog) + Cardinality(InProgress) < MaxCommands
    /\ LifeFrame
    /\ UNCHANGED <<dialer_of, active_campaigns, dialer_stats>>
    /\ IF c \notin DOMAIN dialer_of
       THEN /\ last' = Last("stop", "stopped", None)
            /\ lifelog' = Append(lifelog, "stop")
            /\ UNCHANGED <<dialers, requests>>
       ELSE /\ dialers' = [dialers EXCEPT ![dialer_of[c]].running = FALSE,
                                          ![dialer_of[c]].cleared = TRUE]
            /\ requests' = [requests EXCEPT ![r] =
                               [kind |-> "stop", pc |-> "join", c |-> c,
                                d |-> dialer_of[c]]]
            /\ UNCHANGED <<last, lifelog>>

(* "if self.thread:" finds no thread, or thread.join(timeout=5) returns:   *)
(* the thread has ended, or the 5 s have                                   *)
(* elapsed with the thread inside an iteration or in time.sleep(30) (the   *)
(* sleeps of 1 s and of turbo_delay_seconds end before the deadline).      *)
(* Then del self.active_campaigns[campaign_id], a KeyError if another stop *)
(* removed the entry meanwhile.                                            *)
StopJoin(r) ==
    LET c == requests[r].c
        d == requests[r].d
    IN
    /\ requests[r].pc = "join"
    /\ \/ dialers[d].thread \in {"none", "dead"}
       \/ dialers[d].pc \in {"tick", "sleep_long"}
    /\ dialers' = [dialers EXCEPT ![d].stop_returned = TRUE]
    /\ IF c \in DOMAIN dialer_of
       THEN /\ dialer_of' = [x \in DOMAIN dialer_of \ {c} |-> dialer_of[x]]
            /\ active_campaigns' = active_campaigns \ {c}
            /\ last' = Last("stop", "stopped", None)
       ELSE /\ UNCHANGED <<dialer_of, active_campaigns>>
            /\ last' = Last("stop", "DIALER_STOP_FAILED", None)
    /\ lifelog' = Append(lifelog, "stop")
    /\ requests' = [requests EXCEPT ![r] = IdleRequest]
    /\ UNCHANGED dialer_stats
    /\ LifeFrame

(* "while self.running:" of the dialer's _run *)
ThreadTop(d) ==
    /\ dialers[d].thread = "alive"
    /\ dialers[d].pc = "top"
    /\ dialers' = IF ~dialers[d].running
                  THEN [dialers EXCEPT ![d].thread = "dead"]
                  ELSE IF DialerMode(dialers[d].campaign_id) = "turbo"
                  THEN [dialers EXCEPT ![d].pc = "tick"]
                  ELSE [dialers EXCEPT ![d].pc = "sleep"]
    /\ LifeFrame
    /\ UNCHANGED <<active_campaigns, dialer_stats, last, dialer_of, requests,
                   lifelog>>

(* The body of TurboDialer._run's loop, up to time.sleep; late records an  *)
(* Originate written after the stop that ended this dialer had returned    *)
ThreadTick(d, ok) ==
    /\ dialers[d].thread = "alive"
    /\ dialers[d].pc = "tick"
    /\ TurboIteration(dialers[d].campaign_id, ok, "none")
    /\ dialers' = [dialers EXCEPT
                     ![d].pc = IF /\ Len(GetAvailableAgents(agent_statuses,
                                                           dialers[d].campaign_id)) > 0
                                  /\ GetNextLead(dialers[d].campaign_id) = None
                               THEN "sleep_long" ELSE "sleep",
                     ![d].late = @ \/ ( /\ dialers[d].stop_returned
                                        /\ Len(ami_out') > Len(ami_out) )]
    /\ UNCHANGED <<dialer_of, requests, lifelog>>

(* time.sleep returns *)
ThreadWake(d) ==
    /\ dialers[d].thread = "alive"
    /\ dialers[d].pc \in {"sleep", "sleep_long"}
    /\ dialers' = [dialers EXCEPT ![d].pc = "top"]
    /\ LifeFrame
    /\ UNCHANGED <<active_campaigns, dialer_stats, last, dialer_of, requests,
                   lifelog>>

InitLifecycle ==
    /\ campaign \in LifecycleRows
    /\ now = 0
    /\ calls = <<>>
    /\ call_events = <<>>
    /\ agent_statuses = <<>>
    /\ active_campaigns = {}
    /\ dialer_stats = <<>>
    /\ active_calls = <<>>
    /\ ami_out = <<>>
    /\ last_contacted = [l \in LeadIds |-> NoTime]
    /\ last = Last("init", "", None)
    /\ calc = NoCalc
    /\ call_ended = [k \in 1..MaxCalls |-> 0]
    /\ hangups = [ch \in Channels |-> [count |-> 0, at |-> NoTime]]
    /\ cycle = NoCycle
    /\ NoLife
    /\ ami = InitAmi
    /\ reader = InitReader
    /\ trail = NoTrail

LifecycleNext(R) ==
    /\ \/ \E r \in R, c \in Campaigns : StartRequest(r, c)
       \/ \E r \in R : StartCreate(r)
       \/ \E r \in R : StartThread(r)
       \/ \E r \in R, c \in Campaigns : StopRequest(r, c)
       \/ \E r \in R : StopJoin(r)
       \/ \E d \in 1..Len(dialers) : ThreadTop(d)
       \/ \E d \in 1..Len(dialers), ok \in BOOLEAN : ThreadTick(d, ok)
       \/ \E d \in 1..Len(dialers) : ThreadWake(d)
    /\ UNCHANGED <<campaign, calc, hangups, cycle, ami, reader, trail>>

(* Commands may run concurrently on the server's threads *)
NextLifecycle == LifecycleNext(ServerThreads)

SpecLifecycle == InitLifecycle /\ [][NextLifecycle]_vars

(* Commands run one after the other *)
NextLifecycleSeq == LifecycleNext({1})

SpecLifecycleSeq == InitLifecycle /\ [][NextLifecycleSeq]_vars

(* A dialer thread that can run does run, and so does a server thread that *)
(* is inside a command; whether a new command arrives is up to the users   *)
ThreadStep(d) ==
    /\ d \in 1..Len(dialers)
    /\ \/ ThreadTop(d)
       \/ \E ok \in BOOLEAN : ThreadTick(d, ok)
       \/ ThreadWake(d)
    /\ UNCHANGED <<campaign, calc, hangups, cycle, ami, reader, trail>>

RequestStep(r) ==
    /\ \/ StartCreate(r)
       \/ StartThread(r)
       \/ StopJoin(r)
    /\ UNCHANGED <<campaign, calc, hangups, cycle, ami, reader, trail>>

Scheduling ==
    /\ \A d \in 1..MaxDialers : WF_vars(ThreadStep(d))
    /\ \A r \in ServerThreads : WF_vars(RequestStep(r))

SpecLifecycleFair == InitLifecycle /\ [][NextLifecycle]_vars /\ Scheduling

----------------------------------------------------------------------------
(* AsteriskAMIClient: actions, responses and the end of the session *)

AmiFrame ==
    UNCHANGED <<now, calls, agent_statuses, active_campaigns, dialer_stats,
                active_calls, ami_out, last_contacted, last, call_ended,
                campaign, calc, hangups, cycle, lifeVars, reader, trail>>

(* f"action_{self.action_id_counter}_{int(time.time())}" *)
ActionId(counter) == [counter |-> counter, time |-> now]

(* send_action past the authenticated check: _get_action_id, the callback  *)
(* stored in response_handlers, then socket.send, which raises when ok is  *)
(* FALSE and leaves the callback stored. cb: a callback was given; k: the  *)
(* call_id bound in it.                                                    *)
AmiSend(a, cb, k, ok) ==
    LET id == a.action_id_counter + 1 IN
    [a EXCEPT !.action_id_counter = id,
              !.action_ids = Append(@, ActionId(id)),
              !.response_handlers = IF cb THEN @ \cup {id} ELSE @,
              !.callback_of = IF cb
                              THEN [x \in DOMAIN a.callback_of \cup {id} |->
                                      IF x = id THEN k ELSE a.callback_of[x]]
                              ELSE @,
              !.completions = IF cb
                              THEN [x \in DOMAIN a.completions \cup {id} |->
                                      IF x = id THEN <<>> ELSE a.completions[x]]
                              ELSE @,
              !.socket = IF ok THEN @ ELSE "failed"]

(* send_action(action, parameters, callback) *)
AmiSendAction(cb, ok) ==
    /\ ami.authenticated
    /\ ami.action_id_counter < MaxActions
    /\ ok => ami.socket = "open"
    /\ ami' = AmiSend(ami, cb, None, ok)
    /\ call_events' = call_events
    /\ AmiFrame

(* Asterisk writes the response to action id on the socket *)
AmiArrive(id, resp) ==
    /\ ami.socket = "open"
    /\ id \in 1..ami.action_id_counter
    /\ Len(ami.inbox) < MaxInbox
    /\ ami' = [ami EXCEPT !.inbox = Append(@, [action_id |-> id,
                                                response |-> resp])]
    /\ call_events' = call_events
    /\ AmiFrame

(* Asterisk writes an event that carries the ActionID of action id, as it *)
(* does for the events an action gives rise to                             *)
AmiArriveEvent(ev, id) ==
    /\ ami.socket = "open"
    /\ id \in 1..ami.action_id_counter
    /\ Len(ami.inbox) + Len(ami.events) < MaxInbox
    /\ ami' = [ami EXCEPT !.inbox = Append(@, [event |-> ev, action_id |-> id,
                                                response |-> "Success"])]
    /\ call_events' = call_events
    /\ AmiFrame

(* The event types initialize_ami_connection registers a handler for *)
RegisteredEvents == {"Newchannel", "Hangup", "Bridge", "DialBegin", "DialEnd"}

(* One turn of _event_loop: _read_response returns a message and          *)
(* _handle_message looks at it.  With an Event key it goes to the handlers *)
(* registered for the event type and the ActionID is not looked at;        *)
(* otherwise the handler of its ActionID is popped and called; the handler *)
(* of an Originate is _handle_originate_response, which adds one CallEvent *)
(* and writes nothing else.                                                *)
AmiHandle ==
    /\ ami.running
    /\ ami.connected
    /\ ami.socket = "open"
    /\ ami.inbox # <<>>
    /\ LET m   == Head(ami.inbox)
           id  == m.action_id
           hit == id \in ami.response_handlers
           k   == IF hit THEN ami.callback_of[id] ELSE None
       IN  IF "event" \in DOMAIN m
           THEN /\ ami' = [ami EXCEPT
                             !.inbox = Tail(@),
                             !.events = IF m.event \in RegisteredEvents
                                        THEN Append(@, m) ELSE @]
                /\ call_events' = call_events
           ELSE /\ ami' = [ami EXCEPT
                             !.inbox = Tail(@),
                             !.response_handlers = @ \ {id},
                             !.completions = IF hit
                                             THEN [@ EXCEPT ![id] = Append(@, m.response)]
                                             ELSE @]
                /\ call_events' = IF k \in DOMAIN call_events
                                  THEN [call_events EXCEPT ![k] = @ + 1]
                                  ELSE call_events
    /\ AmiFrame

(* socket.recv raises in _read_response: the error is logged, None is      *)
(* returned and the loop goes on with connected still True                 *)
AmiReadFailure ==
    /\ ami.running
    /\ ami.connected
    /\ ami.socket = "open"
    /\ ami' = [ami EXCEPT !.socket = "failed", !.inbox = <<>>]
    /\ call_events' = call_events
    /\ AmiFrame

(* The peer closed the connection after all it wrote was read: recv        *)
(* returns no data, _read_response leaves its loop and returns None, which *)
(* _event_loop skips; the loop goes on with connected still True           *)
AmiPeerClose ==
    /\ ami.running
    /\ ami.connected
    /\ ami.socket = "open"
    /\ ami.inbox = <<>>
    /\ ami' = [ami EXCEPT !.socket = "eof"]
    /\ call_events' = call_events
    /\ AmiFrame

(* disconnect() *)
AmiDisconnect ==
    /\ ami.connected
    /\ ami' = [ami EXCEPT !.running = FALSE, !.authenticated = FALSE,
                          !.connected = FALSE, !.socket = "closed",
                          !.inbox = <<>>]
    /\ call_events' = call_events
    /\ AmiFrame

NextAmi ==
    \/ \E cb \in BOOLEAN, ok \in BOOLEAN : AmiSendAction(cb, ok)
    \/ \E id \in 1..MaxActions, resp \in {"Success", "Error"} :
          AmiArrive(id, resp)
    \/ \E id \in 1..MaxActions, ev \in {"OriginateResponse", "Newchannel"} :
          AmiArriveEvent(ev, id)
    \/ AmiHandle
    \/ AmiReadFailure
    \/ AmiPeerClose
    \/ AmiDisconnect

SpecAmi == Init /\ [][NextAmi]_vars

(* SipService.originate_call under POST /dialer/manual-call: the Originate *)
(* is sent with a callback bound to the call_id                            *)
OriginateCommand(u, l, c, ok) ==
    /\ ManualCall(u, l, c, ok, "none")
    /\ ami' = IF Len(ami_out') > Len(ami_out)
              THEN AmiSend(ami, TRUE, Len(calls) + 1, TRUE)
              ELSE ami

InitResponse ==
    /\ Init
    /\ DialerMode(1) = "manual"

NextResponse ==
    /\ \/ \E c \in Campaigns : StartCampaignDialer(c) /\ ami' = ami
       \/ \E u \in Users, s \in {"available", "busy", "offline"} :
             UpdateAgentStatusCmd(u, s) /\ ami' = ami
       \/ \E u \in Users, l \in LeadIds, c \in Campaigns, ok \in BOOLEAN :
             OriginateCommand(u, l, c, ok)
       \/ \E id \in 1..MaxActions, resp \in {"Success", "Error"} :
             AmiArrive(id, resp)
       \/ AmiHandle
    /\ UNCHANGED <<campaign, calc, hangups, cycle, lifeVars, reader, trail>>

(* The event loop thread runs as long as the client is connected, so a    *)
(* message that arrived is handled                                         *)
SpecResponse == InitResponse /\ [][NextResponse]_vars /\ WF_vars(AmiHandle)

----------------------------------------------------------------------------
(* The AMI events of a call in the order the event loop hands them to the *)
(* handlers; trail keeps, per call, the events that were applied to it    *)
(* (a DialEnd by its DialStatus).                                         *)

EventDelivered(e, name) ==
    IF e.k = None
    THEN EventIgnored /\ trail' = trail
    ELSE /\ TotalEvents < MaxTrail
         /\ EventWritten(e.k, e.call, e.ac, e.event_type)
         /\ trail' = [trail EXCEPT ![e.k] = Append(@, name)]

NextEvents ==
    /\ \/ /\ \/ Tick
             \/ \E c \in Campaigns : StartCampaignDialer(c)
             \/ \E u \in Users, l \in LeadIds, c \in Campaigns :
                   ManualCall(u, l, c, TRUE, "none")
             \/ \E c \in Campaigns : TurboTick(c, TRUE, "none")
          /\ trail' = trail
       \/ \E ch \in Channels : EventDelivered(Hangup(ch), "Hangup")
       \/ \E ch \in Channels : EventDelivered(DialBegin(ch), "DialBegin")
       \/ \E ch \in Channels, ds \in DialStatuses :
             EventDelivered(DialEnd(ch, ds), ds)
       \/ \E ch1 \in Channels, ch2 \in Channels :
             EventDelivered(Bridge(ch1, ch2), "Bridge")
    /\ UNCHANGED <<campaign, calc, hangups, cycle, lifeVars, ami, reader>>

SpecEvents == Init /\ [][NextEvents]_vars

----------------------------------------------------------------------------
(* AsteriskAMIClient._read_response under _event_loop.  The stream is a    *)
(* sequence of tokens: a header line (message n is the line n) or the      *)
(* terminator "\r\n\r\n"; one socket.recv(1024) returns a chunk of it.     *)

CRLFCRLF == 0

ReaderFrame ==
    UNCHANGED <<now, calls, call_events, agent_statuses, active_campaigns,
                dialer_stats, active_calls, ami_out, last_contacted, last,
                call_ended, campaign, calc, hangups, cycle, lifeVars, ami,
                trail>>

(* buffer.split('\r\n\r\n')[0] *)
MessageText(buffer) ==
    LET P == {i \in 1..Len(buffer) : buffer[i] = CRLFCRLF}
        p == CHOOSE i \in P : \A j \in P : i <= j
    IN  SubSeq(buffer, 1, p - 1)

(* _parse_message: the dict of the lines of the text *)
ParseMessage(message_text) == Range(message_text)

(* Asterisk writes message n *)
PeerWrite ==
    /\ Len(reader.sent) < MaxMessages
    /\ LET n == Len(reader.sent) + 1 IN
       reader' = [reader EXCEPT !.sent = Append(@, n),
                                !.stream = @ \o <<n, CRLFCRLF>>]
    /\ ReaderFrame

(* One socket.recv of _read_response returns size tokens: the data joins   *)
(* the buffer; with a terminator in the buffer the first message is parsed *)
(* and returned, the buffer ends with the call, and _event_loop hands a    *)
(* non-empty message to _handle_message                                    *)
Recv(size) ==
    /\ ami.running /\ ami.connected
    /\ reader.stream # <<>>
    /\ LET n       == IF size < Len(reader.stream) THEN size ELSE Len(reader.stream)
           buffer  == reader.buffer \o SubSeq(reader.stream, 1, n)
           rest    == SubSeq(reader.stream, n + 1, Len(reader.stream))
       IN  IF CRLFCRLF \in Range(buffer)
           THEN LET message == ParseMessage(MessageText(buffer)) IN
                reader' = [reader EXCEPT
                             !.stream = rest,
                             !.buffer = <<>>,
                             !.dispatched = IF message # {} THEN Append(@, message)
                                            ELSE @]
           ELSE reader' = [reader EXCEPT !.stream = rest, !.buffer = buffer]
    /\ ReaderFrame

(* Nothing reaches the socket for the 10 s of settimeout (what is left of *)
(* the stream is still on its way): socket.timeout, None is returned and   *)
(* the buffer read so far ends with the call                               *)
RecvTimeout ==
    /\ ami.running /\ ami.connected
    /\ reader.buffer # <<>>
    /\ reader' = [reader EXCEPT !.buffer = <<>>]
    /\ ReaderFrame

NextReader ==
    \/ PeerWrite
    \/ \E size \in 1..MaxChunk : Recv(size)
    \/ RecvTimeout

SpecReader == Init /\ [][NextReader]_vars

----------------------------------------------------------------------------
(* send_action called on several threads (dialer threads, request         *)
(* handlers): _get_action_id is "self.action_id_counter += 1", a read and  *)
(* a write of the attribute, followed by another read of the attribute in  *)
(* the return statement; nothing keeps another thread from running between *)
(* them.  requests[r].d holds the value thread r has read.                 *)

IdsFrame ==
    UNCHANGED <<now, calls, call_events, agent_statuses, active_campaigns,
                dialer_stats, active_calls, ami_out, last_contacted, last,
                call_ended>>

GetActionIdLoad(r) ==
    /\ requests[r].pc = "idle"
    /\ ami.authenticated
    /\ Len(ami.action_ids) + Cardinality(InProgress) < MaxActions
    /\ requests' = [requests EXCEPT ![r] =
                       [kind |-> "send_action", pc |-> "store", c |-> None,
                        d |-> ami.action_id_counter]]
    /\ ami' = ami
    /\ IdsFrame

GetActionIdStore(r) ==
    /\ requests[r].kind = "send_action"
    /\ requests[r].pc = "store"
    /\ ami' = [ami EXCEPT !.action_id_counter = requests[r].d + 1]
    /\ requests' = [requests EXCEPT ![r] = [@ EXCEPT !.pc = "format"]]
    /\ IdsFrame

(* The return statement of _get_action_id, then the rest of send_action:   *)
(* the callback is stored under the ActionID and the message is written    *)
GetActionIdReturn(r) ==
    /\ requests[r].kind = "send_action"
    /\ requests[r].pc = "format"
    /\ LET id == ami.action_id_counter IN
       ami' = [ami EXCEPT
                 !.action_ids = Append(@, ActionId(id)),
                 !.response_handlers = @ \cup {id},
                 !.callback_of = [x \in DOMAIN ami.callback_of \cup {id} |-> None],
                 !.completions = [x \in DOMAIN ami.completions \cup {id} |->
                                    IF x \in DOMAIN ami.completions
                                    THEN ami.completions[x] ELSE <<>>]]
    /\ requests' = [requests EXCEPT ![r] = IdleRequest]
    /\ IdsFrame

NextIds ==
    /\ \/ Tick /\ UNCHANGED <<requests, ami>>
       \/ \E r \in ServerThreads : GetActionIdLoad(r)
       \/ \E r \in ServerThreads : GetActionIdStore(r)
       \/ \E r \in ServerThreads : GetActionIdReturn(r)
    /\ UNCHANGED <<campaign, calc, hangups, cycle, dialers, dialer_of, lifelog,
                   reader, trail>>

SpecIds == Init /\ [][NextIds]_vars

----------------------------------------------------------------------------
(* Manual calls on several server threads: the checks of the route and     *)
(* initiate_call are two stretches of code, and another request can run    *)
(* between them.                                                           *)

(* The route up to "manual_dialer.manual_call(lead_id, current_user_id)" *)
ManualCheck(r, u, l, c) ==
    /\ requests[r].pc = "idle"
    /\ IF ManualCallError(u, l, c) # ""
       THEN /\ Reject("manual_call", ManualCallError(u, l, c))
            /\ requests' = requests
       ELSE /\ requests' = [requests EXCEPT ![r] =
                               [kind |-> "manual_call", pc |-> "initiate",
                                c |-> c, d |-> l, u |-> u]]
            /\ UNCHANGED <<now, calls, call_events, agent_statuses,
                           active_campaigns, dialer_stats, active_calls,
                           ami_out, last_contacted, call_ended, last>>

(* ManualDialer.manual_call: initiate_call for the lead and the user *)
ManualInitiate(r, ok) ==
    /\ requests[r].kind = "manual_call"
    /\ requests[r].pc = "initiate"
    /\ InitiateCall("manual_call", agent_statuses, requests[r].c,
                    requests[r].d, requests[r].u, ok, "none")
    /\ requests' = [requests EXCEPT ![r] = IdleRequest]

NextRace ==
    /\ \/ (\E c \in Campaigns : StartCampaignDialer(c)) /\ requests' = requests
       \/ AmiEvents /\ requests' = requests
       \/ \E r \in ServerThreads, u \in Users, l \in LeadIds, c \in Campaigns :
             ManualCheck(r, u, l, c)
       \/ \E r \in ServerThreads, ok \in BOOLEAN : ManualInitiate(r, ok)
    /\ UNCHANGED <<campaign, calc, hangups, cycle, dialers, dialer_of, lifelog,
                   ami, reader, trail>>

SpecRace == InitResponse /\ [][NextRace]_vars

----------------------------------------------------------------------------
(* A manual call against the event loop thread of the AMI client: between  *)
(* the socket write of send_action and the statement of                    *)
(* SipService.originate_call that stores the active_calls entry (and the   *)
(* commit of the Call row after it) the event loop may handle events.      *)

(* The route, initiate_call up to sip_service.originate_call, and          *)
(* originate_call up to the return of ami_client.originate_call: the Call  *)
(* row is flushed but not committed, the agent is on_call, the Originate   *)
(* is written                                                              *)
OriginateWrite(r, u, l, c) ==
    /\ requests[r].pc = "idle"
    /\ ManualCallError(u, l, c) = ""
    /\ Len(calls) < MaxCalls
    /\ Len(ami_out) < MaxCalls
    /\ agent_statuses' = UpdateAgentStatus(agent_statuses, u, "on_call",
                                           Len(calls) + 1)
    /\ ami_out' = Append(ami_out, Len(calls) + 1)
    /\ requests' = [requests EXCEPT ![r] =
                       [kind |-> "originate", pc |-> "store", c |-> c,
                        d |-> l, u |-> u]]
    /\ UNCHANGED <<now, calls, call_events, active_campaigns, dialer_stats,
                   active_calls, last_contacted, call_ended, last>>

(* self.active_calls[call_id] = {...}, return True, and the rest of        *)
(* initiate_call: the commits, the statistics                              *)
OriginateStore(r) ==
    LET k == Len(calls) + 1
        c == requests[r].c
        l == requests[r].d
    IN
    /\ requests[r].kind = "originate"
    /\ requests[r].pc = "store"
    /\ active_calls' = StoreActive(active_calls, k, l)
    /\ calls' = Append(calls, NewCall(c, l, requests[r].u))
    /\ call_events' = Append(call_events, 0)
    /\ last_contacted' = [last_contacted EXCEPT ![l] = now]
    /\ dialer_stats' = BumpStats(dialer_stats, c)
    /\ last' = Last("manual_call", "initiated", k)
    /\ requests' = [requests EXCEPT ![r] = IdleRequest]
    /\ UNCHANGED <<now, agent_statuses, active_campaigns, ami_out, call_ended>>

NextOriginate ==
    /\ \/ (\E c \in Campaigns : StartCampaignDialer(c)) /\ requests' = requests
       \/ AmiEvents /\ requests' = requests
       \/ Tick /\ requests' = requests
       \/ \E u \in Users, l \in LeadIds, c \in Campaigns :
             OriginateWrite(1, u, l, c)
       \/ OriginateStore(1)
    /\ UNCHANGED <<campaign, calc, hangups, cycle, dialers, dialer_of, lifelog,
                   ami, reader, trail>>

SpecOriginate == InitResponse /\ [][NextOriginate]_vars

----------------------------------------------------------------------------
(* Properties *)

Terminal(call) == call.call_status \in TerminalStatuses

AgentOnCall(u, k) ==
    /\ u \in DOMAIN agent_statuses
    /\ agent_statuses[u].status = "on_call"
    /\ agent_statuses[u].current_call_id = k

(* C1: once a Call's status is busy, no_answer, failed or completed, no    *)
(* later step (event handler, initiate_call, replayed or reordered event)  *)
(* changes its status or any other field: the row stays as it is.          *)
C1_TerminalCallFrozen ==
    [][\A k \in CallIds :
          Terminal(calls[k]) => k <= Len(calls') /\ calls'[k] = calls[k]]_vars

(* C1 witness: call j was ended by an event, and a later call k on the     *)
(* same channel has had an event applied after that.                       *)
C1_Witness ==
    \E j \in CallIds, k \in CallIds :
        /\ Terminal(calls[j])
        /\ calls[j].ended_at # NoTime
        /\ calls[k].phone_number = calls[j].phone_number
        /\ calls[k].started_at > calls[j].ended_at
        /\ calls[k].call_status # "initiated"

(* C2: for every agent, current_call_id is non-null exactly when the       *)
(* status is on_call.                                                      *)
C2_CallIdIffOnCall ==
    \A u \in DOMAIN agent_statuses :
        (agent_statuses[u].current_call_id # None)
            <=> (agent_statuses[u].status = "on_call")

(* C3: when the Hangup of a manual call is processed while the agent is    *)
(* still on that call, the agent becomes available, its last_call_end is   *)
(* set to the time of the hangup and its calls_today grows by one.         *)
C3_HangupReleasesAgent ==
    [][\A k \in CallIds :
          LET a == calls[k].agent_id IN
          ( /\ campaign.dialer_mode = "manual"
            /\ AgentOnCall(a, k)
            /\ calls[k].call_status # "completed"
            /\ calls'[k].call_status = "completed" )
          => /\ agent_statuses'[a].status = "available"
             /\ agent_statuses'[a].last_call_end = now
             /\ agent_statuses'[a].calls_today = agent_statuses[a].calls_today + 1
      ]_vars

(* C4: no lead has more Call rows than its campaign's max_attempts, and    *)
(* get_next_lead returns no lead that has reached max_attempts.            *)
C4_AttemptsCapped ==
    /\ \A l \in LeadIds :
          Cardinality(CallsOfLead(l)) <= MaxAttempts(LeadCampaign(l))
    /\ \A c \in Campaigns :
          GetNextLead(c) # None =>
              Cardinality(CallsOfLead(GetNextLead(c))) < MaxAttempts(c)

(* C5: _calculate_calls_needed yields an integer in                        *)
(* [0, min(3 * available, 10)] for every history, a non-empty history      *)
(* without answered calls included.                                        *)
C5_CallsNeededInRange ==
    calc.done =>
        /\ ~calc.raised
        /\ calc.value \in 0..Min(3 * calc.available, 10)

(* C6: once DialEnd{BUSY} has made a call busy its agent is released, and  *)
(* a second delivery of DialEnd{BUSY} on the call's channel appends a      *)
(* second CallEvent row for the call.                                      *)
C6_BusyReleasesAgentAndLogsReplay ==
    \A k \in CallIds :
        calls[k].call_status = "busy" =>
            /\ ~AgentOnCall(calls[k].agent_id, k)
            /\ TotalEvents < MaxEvents =>
                 ENABLED ( /\ HandleDialEnd(Channel(calls[k].phone_number), "BUSY")
                           /\ call_events'[k] = call_events[k] + 1 )

(* C7: update_agent_status does not move an agent that is on an active    *)
(* call to available: the request is rejected and the agent's status and   *)
(* current_call_id stay as they were.                                      *)
C7_OnCallAgentNotFreedByCommand ==
    [][\A u \in DOMAIN agent_statuses :
          LET k == agent_statuses[u].current_call_id IN
          ( /\ agent_statuses[u].status = "on_call"
            /\ k \in CallIds
            /\ ~Terminal(calls[k])
            /\ last'.op = "update_agent_status"
            /\ agent_statuses' # agent_statuses )
          => agent_statuses'[u].status # "available"
      ]_vars

(* C8: when submitting the Originate fails, initiate_call leaves the Call  *)
(* row failed and the agent available without a current call, and returns *)
(* no call id.                                                             *)
C8_FailedOriginateReverts ==
    last.code = "originate_failed" =>
        LET k == Len(calls)
            a == calls[k].agent_id
        IN  /\ k > 0
            /\ calls[k].call_status = "failed"
            /\ a \in DOMAIN agent_statuses
            /\ agent_statuses[a].status = "available"
            /\ agent_statuses[a].current_call_id = None
            /\ last.call_id = None
            /\ k \notin Range(ami_out)

(* C8 witness: an initiate_call whose Originate submission failed *)
C8_Witness ==
    /\ last.code = "originate_failed"
    /\ Len(calls) > 0
    /\ calls[Len(calls)].call_status = "failed"

(* C9: every Originate written to the AMI has exactly one Call row, which  *)
(* still exists after initiate_call has returned, also when a later step   *)
(* of initiate_call raised.                                                *)
C9_OriginateHasCallRow ==
    /\ \A i \in 1..Len(ami_out) : ami_out[i] \in CallIds
    /\ \A i \in 1..Len(ami_out), j \in 1..Len(ami_out) :
          ami_out[i] = ami_out[j] => i = j

(* C10: the agents that are on_call on a call of a campaign are never more *)
(* than the CampaignAssignments of that campaign.                          *)
C10_OnCallWithinAssignments ==
    \A c \in Campaigns :
        Cardinality({u \in DOMAIN agent_statuses :
                        /\ agent_statuses[u].status = "on_call"
                        /\ agent_statuses[u].current_call_id \in CallIds
                        /\ calls[agent_statuses[u].current_call_id].campaign_id = c})
            <= Len(AssignedAgents(c))

C12_CycleSubmitsCallsNeeded ==
    ( /\ cycle.phase \in {"done", "raised"}
      /\ Len(cycle.available) + cycle.originated > 0
      /\ ~CalcRaises(cycle.history, Len(cycle.available) + cycle.originated)
      /\ cycle.failed = 0 )
    => /\ cycle.phase = "done"
       /\ cycle.originated = cycle.to_make
       /\ Len(ami_out) = cycle.to_make

(* C13: at any time at most one dialer task is alive per campaign, also    *)
(* when start commands for the same campaign run concurrently.             *)
C13_OneDialerTaskPerCampaign ==
    \A c \in Campaigns : Cardinality(LiveTasks(dialers, c)) <= 1

(* C14: a dialer writes no Originate after the stop that ended it has      *)
(* returned, whatever the dialer was doing when the join deadline elapsed. *)
C14_NoOriginateAfterStop ==
    \A d \in 1..Len(dialers) : ~dialers[d].late

(* C15: when the second start of start(c); stop(c); start(c) completes,    *)
(* the engine is as after start(c) alone: c is the running set, its        *)
(* statistics are reset and exactly one dialer task is alive for c.        *)
C15_StartStopStartLikeStart ==
    [][\A c \in Campaigns :
          ( /\ lifelog' # lifelog
            /\ lifelog' = <<"start", "stop", "start">> )
          => /\ active_campaigns' = {c}
             /\ c \in DOMAIN dialer_stats' /\ dialer_stats'[c] = 0
             /\ Cardinality(LiveTasks(dialers', c)) = 1
      ]_vars

(* C16: with a campaign that is not active, has no assignment or has no    *)
(* lead, no dialer is ever created or registered, and start answers        *)
(* CAMPAIGN_NOT_ACTIVE, NO_AGENTS_ASSIGNED or NO_LEADS_AVAILABLE.          *)
C16_StartRejected ==
    \A c \in Campaigns :
        LET code == IF CampaignStatus(c) # "active" THEN "CAMPAIGN_NOT_ACTIVE"
                    ELSE IF Len(AssignedAgents(c)) = 0 THEN "NO_AGENTS_ASSIGNED"
                    ELSE IF ~(\E l \in LeadIds : LeadCampaign(l) = c)
                    THEN "NO_LEADS_AVAILABLE"
                    ELSE "started"
        IN  code # "started" =>
                /\ active_campaigns = {}
                /\ dialer_of = <<>>
                /\ dialers = <<>>
                /\ \A r \in ServerThreads : requests[r].pc # "create"
                /\ last.op = "start" => last.code = code

(* C16 witness: a start was answered NO_LEADS_AVAILABLE for a campaign     *)
(* without leads                                                           *)
C16_Witness ==
    /\ last = Last("start", "NO_LEADS_AVAILABLE", None)
    /\ Len(Leads) = 0
    /\ active_campaigns = {}

(* C17: a manual call is originated only for a lead of the campaign and an *)
(* agent that is assigned to the campaign and available (or not tracked    *)
(* yet); a rejected manual call creates no Call row and changes no agent.  *)
C17_ManualCallValidated ==
    [][ /\ ( /\ last'.op = "manual_call"
             /\ Len(ami_out') > Len(ami_out) )
           => LET call == calls'[ami_out'[Len(ami_out')]] IN
              /\ LeadCampaign(call.lead_id) = call.campaign_id
              /\ IsAssigned(call.campaign_id, call.agent_id)
              /\ \/ call.agent_id \notin DOMAIN agent_statuses
                 \/ agent_statuses[call.agent_id].status = "available"
        /\ ( /\ last'.op = "manual_call"
             /\ last'.code \in {"INVALID_DIALER_MODE", "LEAD_NOT_FOUND",
                                "ACCESS_DENIED", "AGENT_NOT_AVAILABLE",
                                "DIALER_NOT_RUNNING"} )
           => calls' = calls /\ agent_statuses' = agent_statuses
      ]_vars

(* C18: get_next_lead does not return a lead whose latest call started     *)
(* less than retry_delay_minutes ago, and returns the first lead of the    *)
(* campaign once the delay has elapsed if its status, phone number and     *)
(* number of calls allow it.                                               *)
C18_CooldownRespected ==
    \A c \in Campaigns :
        LET l == Leads[1] IN
        CallsOfLead(l) # {} =>
            /\ now - LastCallStart(l) < RetryDelayMinutes(c) => GetNextLead(c) # l
            /\ ( /\ now - LastCallStart(l) >= RetryDelayMinutes(c)
                 /\ LeadCampaign(l) = c
                 /\ LeadStatus(l) \in {"new", "callback", "interested"}
                 /\ Cardinality(CallsOfLead(l)) < MaxAttempts(c) )
               => GetNextLead(c) = l

(* C18 witness: the lead was called, is still below max_attempts, was      *)
(* withheld during the delay and is returned now that the delay is over    *)
C18_Witness ==
    /\ CallsOfLead(Leads[1]) # {}
    /\ RetryDelayMinutes(1) > 0
    /\ now - LastCallStart(Leads[1]) >= RetryDelayMinutes(1)
    /\ GetNextLead(1) = Leads[1]

(* The session of the AMI client is over: disconnect() ran or the socket   *)
(* failed                                                                  *)
SessionEnded == ami.socket # "open"

(* C19: once the AMI session has ended, by disconnect() or by a socket     *)
(* failure, no response callback is left registered and every callback     *)
(* given to send_action has been called exactly once.                      *)
C19_WaitersCompletedAtSessionEnd ==
    SessionEnded =>
        /\ ami.response_handlers = {}
        /\ \A id \in DOMAIN ami.completions : Len(ami.completions[id]) = 1

Responded(k, resp) ==
    \E id \in DOMAIN ami.callback_of :
        /\ ami.callback_of[id] = k
        /\ resp \in Range(ami.completions[id])

FailedAndReleased(k) ==
    /\ k \in CallIds
    /\ calls[k].call_status = "failed"
    /\ calls[k].agent_id \in DOMAIN agent_statuses
    /\ agent_statuses[calls[k].agent_id].status = "available"

(* C20: once the response to the Originate of a call reports an error,     *)
(* the Call is eventually marked failed and its agent is back to           *)
(* available.                                                              *)
C20_ErrorResponseFailsCall ==
    \A k \in 1..MaxCalls :
        Responded(k, "Error") ~> FailedAndReleased(k)

(* The step applied the event called name to call k *)
Applied(k, name) == trail' = [trail EXCEPT ![k] = Append(@, name)]

(* C21: a Hangup for an in-flight call sets its status to completed, its   *)
(* ended_at to the time of the event and its duration_seconds to ended_at  *)
(* minus started_at.                                                       *)
C21_HangupCompletesWithDuration ==
    [][ \A ch \in Channels :
          LET e == Hangup(ch) IN
          (e.k # None /\ Applied(e.k, "Hangup")) =>
              /\ calls'[e.k].call_status = "completed"
              /\ calls'[e.k].ended_at = now
              /\ calls'[e.k].duration_seconds = now - calls[e.k].started_at
      ]_vars

(* C21 witness: a call went through ringing on DialBegin and answered on   *)
(* DialEnd ANSWER and was hung up one second after it was started          *)
C21_Witness ==
    \E k \in CallIds :
        /\ trail[k] = <<"DialBegin", "ANSWER", "Hangup">>
        /\ calls[k].call_status = "completed"
        /\ calls[k].ended_at = calls[k].started_at + 1
        /\ calls[k].duration_seconds = 1

(* C22: a DialEnd for an in-flight call that is not terminal sets the      *)
(* status by DialStatus: ANSWER gives answered with answered_at set, BUSY  *)
(* or CONGESTION busy, NOANSWER or CANCEL no_answer, anything else failed; *)
(* every case but ANSWER sets ended_at and removes the entry of the        *)
(* in-flight map.                                                          *)
C22_DialEndSetsStatus ==
    [][ \A ch \in Channels, ds \in DialStatuses :
          LET k == DialEnd(ch, ds).k IN
          (k # None /\ ~Terminal(calls[k]) /\ Applied(k, ds)) =>
              /\ ds = "ANSWER" =>
                    /\ calls'[k].call_status = "answered"
                    /\ calls'[k].answered_at = now
                    /\ k \in DOMAIN active_calls'
              /\ ds \in {"BUSY", "CONGESTION"} => calls'[k].call_status = "busy"
              /\ ds \in {"NOANSWER", "CANCEL"} => calls'[k].call_status = "no_answer"
              /\ ds \notin {"ANSWER", "BUSY", "CONGESTION", "NOANSWER", "CANCEL"} =>
                    calls'[k].call_status = "failed"
              /\ ds # "ANSWER" =>
                    /\ calls'[k].ended_at = now
                    /\ k \notin DOMAIN active_calls'
      ]_vars

(* C22 witness: a ringing call ended by DialEnd CANCEL is no_answer and    *)
(* out of the in-flight map                                                *)
C22_Witness ==
    \E k \in CallIds :
        /\ trail[k] = <<"DialBegin", "CANCEL">>
        /\ calls[k].call_status = "no_answer"
        /\ calls[k].ended_at # NoTime
        /\ k \notin DOMAIN active_calls

Rank(status) ==
    IF status = "initiated" THEN 0
    ELSE IF status = "ringing" THEN 1
    ELSE IF status = "answered" THEN 2
    ELSE 3

(* C24: the status of a Call only moves forward along initiated, ringing,  *)
(* answered, then completed, busy, no_answer or failed; no event moves an  *)
(* answered call back to ringing.                                          *)
C24_StatusOnlyMovesForward ==
    [][ \A k \in CallIds :
          Rank(calls'[k].call_status) >= Rank(calls[k].call_status) ]_vars

(* C25: for a ringing call that Bridge or DialEnd ANSWER has answered, the *)
(* other of the two events changes neither the status nor answered_at.     *)
C25_SecondAnswerIsNoOp ==
    [][ \A k \in CallIds :
          ( /\ trail[k] \in {<<"DialBegin", "Bridge">>, <<"DialBegin", "ANSWER">>}
            /\ trail'[k] \in {<<"DialBegin", "Bridge", "ANSWER">>,
                              <<"DialBegin", "ANSWER", "Bridge">>} )
          => /\ calls'[k].call_status = calls[k].call_status
             /\ calls'[k].answered_at = calls[k].answered_at ]_vars

(* C23: once stop has cleared the running flag of a dialer, the dialer's   *)
(* loop eventually terminates.                                             *)
C23_StoppedDialerTerminates ==
    \A d \in 1..MaxDialers :
        (d <= Len(dialers) /\ dialers[d].cleared) ~>
            (d <= Len(dialers) /\ dialers[d].thread = "dead")

(* C26: every complete message received from the socket is parsed and      *)
(* dispatched exactly once, in arrival order: once every byte written has  *)
(* been read and no partial message is pending, the messages dispatched    *)
(* are the messages written.                                               *)
C26_EveryMessageDispatchedOnce ==
    (reader.stream = <<>> /\ reader.buffer = <<>>) =>
        reader.dispatched = [i \in 1..Len(reader.sent) |-> {reader.sent[i]}]

(* C27: a received message that carries both an Event key and the ActionID *)
(* of a pending waiter is delivered to that waiter, which is then removed, *)
(* and is not delivered to the event subscribers.                          *)
C27_EventStyleResponseGoesToWaiter ==
    [][ ( /\ ami.inbox # <<>>
          /\ ami'.inbox = Tail(ami.inbox)
          /\ ami'.socket = "open"
          /\ "event" \in DOMAIN Head(ami.inbox)
          /\ Head(ami.inbox).action_id \in ami.response_handlers )
        => LET id == Head(ami.inbox).action_id IN
           /\ id \notin ami'.response_handlers
           /\ Len(ami'.completions[id]) = Len(ami.completions[id]) + 1
           /\ ami'.events = ami.events ]_vars

(* C28: the ActionIDs produced by send_action are pairwise distinct and    *)
(* increasing, also when several threads call send_action concurrently.    *)
C28_ActionIdsDistinctAndIncreasing ==
    \A i \in 1..Len(ami.action_ids), j \in 1..Len(ami.action_ids) :
        i < j => /\ ami.action_ids[i] # ami.action_ids[j]
                 /\ ami.action_ids[i].counter < ami.action_ids[j].counter

(* The calls of agent u that are in flight *)
InFlightOf(u) ==
    {k \in DOMAIN active_calls \cap CallIds :
        calls[k].agent_id = u /\ ~Terminal(calls[k])}

(* C29: no agent owns two in-flight calls at once, also when two requests  *)
(* pick the same available agent concurrently.                             *)
C29_OneInFlightCallPerAgent ==
    \A u \in Users : Cardinality(InFlightOf(u)) <= 1

(* C30: the in-flight map holds exactly the calls whose Originate has been *)
(* written to the AMI and whose status is not terminal; the entry is there *)
(* from the moment the Originate is sent.                                  *)
C30_InFlightMapExact ==
    DOMAIN active_calls =
        {k \in Range(ami_out) : k \in CallIds => ~Terminal(calls[k])}

----------------------------------------------------------------------------
(* The events Asterisk emits for one originated call.  The event carries   *)
(* the channel name the call was originated on (SipService.originate_call: *)
(* f"SIP/{username}/{phone_number}") and nothing else that names the call; *)
(* trail keeps, per call, the events applied to it with the call each      *)
(* event was emitted for.                                                  *)

ChannelOf(k) == active_calls[k].channel

EmittedFor(k, e, name) ==
    /\ k \in DOMAIN active_calls
    /\ k \in CallIds
    /\ IF e.k = None
       THEN EventIgnored /\ trail' = trail
       ELSE /\ TotalEvents < MaxTrail
            /\ EventWritten(e.k, e.call, e.ac, e.event_type)
            /\ trail' = [trail EXCEPT
                           ![e.k] = Append(@, [event |-> name, of |-> k])]

(* The Newchannel event of call k as _parse_message returns it: a dict of  *)
(* header names to strings; variable: the event carries a Variable header  *)
NewChannelEvent(k, variable) ==
    IF variable
    THEN [Event |-> "Newchannel", Channel |-> ChannelOf(k),
          Variable |-> <<"CALL_ID", k>>]
    ELSE [Event |-> "Newchannel", Channel |-> ChannelOf(k)]

(* call_id = event.get('Variable', {}).get('CALL_ID'): without the header  *)
(* the default {} has no CALL_ID; with it the value is a str, which has no *)
(* get, and AttributeError is raised                                       *)
NewChannelCallId(event) ==
    IF "Variable" \in DOMAIN event
    THEN [raised |-> TRUE, call_id |-> None]
    ELSE [raised |-> FALSE, call_id |-> None]

(* SipService._handle_new_channel under _handle_message *)
HandleNewChannel(k, variable) ==
    LET event == NewChannelEvent(k, variable)
        found == NewChannelCallId(event)
    IN
    /\ k \in DOMAIN active_calls
    /\ k \in CallIds
    /\ Len(reader.outcomes) < MaxInbox
    /\ reader' = [reader EXCEPT !.outcomes =
                     Append(@, [event |-> event, k |-> found.call_id,
                                outcome |-> IF found.raised
                                            THEN "AttributeError"
                                            ELSE IF found.call_id = None
                                            THEN "no_call_id" ELSE "applied"])]
    /\ call_events' = IF ~found.raised /\ found.call_id # None
                      THEN [call_events EXCEPT ![found.call_id] = @ + 1]
                      ELSE call_events
    /\ trail' = trail
    /\ UNCHANGED <<now, calls, agent_statuses, active_campaigns, dialer_stats,
                   active_calls, ami_out, last_contacted, last, call_ended>>

NextChannels ==
    /\ \/ /\ \/ Tick
             \/ \E c \in Campaigns : StartCampaignDialer(c)
             \/ \E u \in Users, l \in LeadIds, c \in Campaigns :
                   ManualCall(u, l, c, TRUE, "none")
             \/ \E c \in Campaigns : TurboTick(c, TRUE, "none")
          /\ trail' = trail
       \/ \E k \in 1..MaxCalls :
             EmittedFor(k, Hangup(ChannelOf(k)), "Hangup")
       \/ \E k \in 1..MaxCalls :
             EmittedFor(k, DialBegin(ChannelOf(k)), "DialBegin")
       \/ \E k \in 1..MaxCalls, ds \in DialStatuses :
             EmittedFor(k, DialEnd(ChannelOf(k), ds), ds)
       \/ \E k \in 1..MaxCalls, ch2 \in Channels :
             EmittedFor(k, Bridge(ChannelOf(k), ch2), "Bridge")
    /\ UNCHANGED <<campaign, calc, hangups, cycle, lifeVars, ami, reader>>

(* Calls placed and their Newchannel events handled *)
NextNewchannel ==
    /\ \/ /\ \/ Tick
             \/ \E c \in Campaigns : StartCampaignDialer(c)
             \/ \E u \in Users, l \in LeadIds, c \in Campaigns :
                   ManualCall(u, l, c, TRUE, "none")
             \/ \E c \in Campaigns : TurboTick(c, TRUE, "none")
          /\ UNCHANGED <<trail, reader>>
       \/ \E k \in 1..MaxCalls, variable \in BOOLEAN :
             HandleNewChannel(k, variable)
    /\ UNCHANGED <<campaign, calc, hangups, cycle, lifeVars, ami>>

SpecNewchannel == Init /\ [][NextNewchannel]_vars

SpecChannels == Init /\ [][NextChannels]_vars

(* C31: a DialBegin, DialEnd, Bridge or Hangup event is applied to the     *)
(* call it was emitted for and to no other call, also when two in-flight   *)
(* calls were originated on the same channel name.                         *)
C31_EventAppliedToOwnCall ==
    \A j \in 1..MaxCalls : \A i \in 1..Len(trail[j]) : trail[j][i].of = j

----------------------------------------------------------------------------
(* The event loop thread inside a SipService handler while request threads *)
(* originate calls.  A handler walks self.active_calls.items(); the walk   *)
(* is split at each step of the dict iterator, where another thread can    *)
(* run and store an entry (SipService.originate_call).                     *)

LoopRow == [CampaignRow("manual", 1, 1) EXCEPT !.leads = <<1, 3>>]

InitLoop ==
    /\ campaign = LoopRow
    /\ now = 0
    /\ calls = <<>>
    /\ call_events = <<>>
    /\ agent_statuses = <<>>
    /\ active_campaigns = {}
    /\ dialer_stats = <<>>
    /\ active_calls = <<>>
    /\ ami_out = <<>>
    /\ last_contacted = [l \in LeadIds |-> NoTime]
    /\ last = Last("init", "", None)
    /\ calc = NoCalc
    /\ call_ended = [k \in 1..MaxEntries |-> 0]
    /\ hangups = [ch \in Channels |-> [count |-> 0, at |-> NoTime]]
    /\ cycle = NoCycle
    /\ NoLife
    /\ ami = InitAmi
    /\ reader = InitReader
    /\ trail = NoTrail

(* The keys of the dict in insertion order: ids are handed out increasing *)
Items(ac) ==
    LET RECURSIVE Sorted(_)
        Sorted(S) == IF S = {} THEN <<>>
                     ELSE LET m == CHOOSE x \in S : \A y \in S : x <= y
                          IN  <<m>> \o Sorted(S \ {m})
    IN  Sorted(DOMAIN ac)

(* POST /dialer/manual-call accepted, initiate_call with a successful      *)
(* originate                                                               *)
PlaceCall(u, l, c) ==
    /\ ManualCallError(u, l, c) = ""
    /\ Len(calls) < MaxEntries
    /\ InitiateCallRun("manual_call", agent_statuses, c, l, u, TRUE, "none")
    /\ reader' = reader

(* Events waiting, in hand or handled *)
EventsArrived ==
    Len(reader.arrived) + Len(reader.outcomes)
        + (IF reader.handling.busy THEN 1 ELSE 0)

(* _event_loop has read and parsed an event Asterisk emitted for the       *)
(* in-flight call k                                                        *)
EventArrives(k, name) ==
    /\ k \in DOMAIN active_calls
    /\ k \in CallIds
    /\ EventsArrived < MaxInbox
    /\ reader' = [reader EXCEPT !.arrived =
                     Append(@, [n |-> EventsArrived + 1, name |-> name,
                                channel |-> ChannelOf(k)])]
    /\ EventIgnored

(* _handle_message calls the handler of the next event *)
HandlerBegin ==
    /\ ~reader.handling.busy
    /\ reader.arrived # <<>>
    /\ reader' = [reader EXCEPT
          !.arrived = Tail(@),
          !.handling = [busy |-> TRUE, event |-> Head(reader.arrived),
                        seen |-> 0, size |-> 0, target |-> None]]
    /\ EventIgnored

HandlerDone(h, outcome, k) ==
    reader' = [reader EXCEPT
       !.handling = NoHandling,
       !.outcomes = Append(@, [event |-> h.event, target |-> h.target,
                               outcome |-> outcome, k |-> k])]

(* One step of the for loop over self.active_calls.items().  The first     *)
(* step creates the iterator, which remembers the size of the dict; target *)
(* is the entry the event's channel stands for at that moment.  A later    *)
(* step raises RuntimeError when the dict changed size since (the          *)
(* try/except of _handle_message logs it and the event is gone).  A step   *)
(* yields the next entry, and the entry with the event's channel gets the  *)
(* event.                                                                  *)
HandlerNext ==
    LET r     == reader.handling
        h     == IF r.seen = 0
                 THEN [r EXCEPT !.size = Cardinality(DOMAIN active_calls),
                                !.target = FindCall({r.event.channel})]
                 ELSE r
        items == Items(active_calls)
        e     == IF h.event.name = "Hangup" THEN Hangup(h.event.channel)
                 ELSE DialBegin(h.event.channel)
    IN
    /\ r.busy
    /\ IF Cardinality(DOMAIN active_calls) # h.size
       THEN HandlerDone(h, "RuntimeError", None) /\ EventIgnored
       ELSE IF h.seen = h.size
       THEN HandlerDone(h, "no_entry", None) /\ EventIgnored
       ELSE IF active_calls[items[h.seen + 1]].channel # h.event.channel
       THEN /\ reader' = [reader EXCEPT !.handling = [h EXCEPT !.seen = @ + 1]]
            /\ EventIgnored
       ELSE IF e.k = None
       THEN HandlerDone(h, "no_row", None) /\ EventIgnored
       ELSE /\ EventWritten(e.k, e.call, e.ac, e.event_type)
            /\ HandlerDone(h, "applied", e.k)

NextLoop ==
    /\ \/ \E c \in Campaigns : StartCampaignDialer(c) /\ reader' = reader
       \/ \E u \in Users : UpdateAgentStatusCmd(u, "available")
                                /\ reader' = reader
       \/ \E u \in Users, l \in LeadIds, c \in Campaigns : PlaceCall(u, l, c)
       \/ \E k \in 1..MaxEntries, name \in {"DialBegin", "Hangup"} :
             EventArrives(k, name)
       \/ HandlerBegin
       \/ HandlerNext
    /\ UNCHANGED <<campaign, calc, hangups, cycle, lifeVars, ami, trail>>

SpecLoop == InitLoop /\ [][NextLoop]_vars

(* C32: the events that arrive for an in-flight call are applied to it one *)
(* at a time in their arrival order, whatever request and dialer threads   *)
(* store in the channel map meanwhile.                                     *)
C32_EventsAppliedInArrivalOrder ==
    \A i \in 1..Len(reader.outcomes) :
        LET o == reader.outcomes[i] IN
        /\ o.event.n = i
        /\ o.target # None => o.outcome = "applied" /\ o.k = o.target

(* C33: within one predictive cycle no agent is chosen for more than one   *)
(* placement, whatever the outcome of its originate.                       *)
C33_AgentChosenOncePerCycle ==
    \A i \in 1..Len(cycle.chosen), j \in 1..Len(cycle.chosen) :
        i # j => cycle.chosen[i] # cycle.chosen[j]

----------------------------------------------------------------------------
(* AsteriskAMIClient.register_event_handler and the event branch of        *)
(* _handle_message.  Handlers are numbered in the order of registration;   *)
(* a call of a handler returns or raises an Exception.                     *)

EventTypes == {"Hangup", "DialBegin"}

HandlersFrame ==
    UNCHANGED <<now, calls, call_events, agent_statuses, active_campaigns,
                dialer_stats, active_calls, ami_out, last_contacted, last,
                call_ended, campaign, calc, hangups, cycle, lifeVars, trail>>

HandlersRegistered ==
    LET RECURSIVE Sum(_)
        Sum(T) == IF T = {} THEN 0
                  ELSE LET t == CHOOSE x \in T : TRUE
                       IN  Len(ami.event_handlers[t]) + Sum(T \ {t})
    IN  Sum(DOMAIN ami.event_handlers)

(* self.event_handlers[event_type], [] for a type never registered *)
HandlersOf(event_type) ==
    IF event_type \in DOMAIN ami.event_handlers
    THEN ami.event_handlers[event_type] ELSE <<>>

RegisterEventHandler(event_type) ==
    /\ HandlersRegistered < MaxHandlers
    /\ ami' = [ami EXCEPT !.event_handlers =
                 [t \in DOMAIN @ \cup {event_type} |->
                    IF t = event_type
                    THEN Append(HandlersOf(t), HandlersRegistered + 1)
                    ELSE @[t]]]
    /\ reader' = reader
    /\ HandlersFrame

(* _event_loop read an event and handed it to _handle_message *)
EventRead(event_type) ==
    /\ ami.running /\ ami.connected
    /\ ~reader.handling.busy
    /\ Len(reader.outcomes) < MaxInbox
    /\ reader' = [reader EXCEPT !.handling =
                     [busy |-> TRUE,
                      event |-> [n |-> Len(reader.outcomes) + 1,
                                 name |-> event_type],
                      pos |-> 1, invoked |-> <<>>]]
    /\ ami' = ami
    /\ HandlersFrame

(* except Exception as e: logger.error(...): the for loop goes on *)
AfterRaiseAborts(pos, handlers) == Len(handlers) + 1

AfterRaise(pos, handlers) == pos + 1

(* One pass of "for handler in self.event_handlers[event_type]", or its    *)
(* end, where _handle_message returns to _event_loop                       *)
HandlerInvoked(raises) ==
    LET h        == reader.handling
        handlers == HandlersOf(h.event.name)
    IN
    /\ h.busy
    /\ IF h.pos > Len(handlers)
       THEN /\ ~raises
            /\ reader' = [reader EXCEPT
                  !.handling = NoHandling,
                  !.outcomes = Append(@, [event |-> h.event,
                                          invoked |-> h.invoked,
                                          registered |-> handlers])]
       ELSE reader' = [reader EXCEPT !.handling =
               [h EXCEPT !.invoked = Append(@, [handler |-> handlers[h.pos],
                                                raised |-> raises]),
                         !.pos = IF raises THEN AfterRaise(h.pos, handlers)
                                 ELSE h.pos + 1]]
    /\ ami' = ami
    /\ HandlersFrame

NextHandlers ==
    \/ \E t \in EventTypes : RegisterEventHandler(t)
    \/ \E t \in EventTypes : EventRead(t)
    \/ \E raises \in BOOLEAN : HandlerInvoked(raises)

SpecHandlers == Init /\ [][NextHandlers]_vars

(* C34: for each received event all handlers registered for it are invoked *)
(* in registration order; an exception raised by one handler neither keeps *)
(* the later handlers from running nor stops the reader loop.              *)
C34_AllHandlersInvokedInOrder ==
    /\ ami.running /\ ami.connected
    /\ \A i \in 1..Len(reader.outcomes) :
          LET o == reader.outcomes[i] IN
          /\ o.event.n = i
          /\ Len(o.invoked) = Len(o.registered)
          /\ \A j \in 1..Len(o.invoked) : o.invoked[j].handler = o.registered[j]

(* an event with two handlers whose first handler raised was handled, and  *)
(* the event after it was handled too                                      *)
C34_Witness ==
    /\ Len(reader.outcomes) = 2
    /\ Len(reader.outcomes[1].invoked) >= 2
    /\ reader.outcomes[1].invoked[1].raised
    /\ Len(reader.outcomes[2].invoked) >= 1

(* C35: a socket read failure or the peer closing the connection leaves    *)
(* the session disconnected and the reader loop stopped.                   *)
C35_ReadFailureDisconnects ==
    [][ (AmiReadFailure \/ AmiPeerClose)
            => (~ami'.connected /\ ~ami'.running) ]_vars

(* C36: in every state of a Call duration_seconds is set exactly when both *)
(* started_at and ended_at are present, and it is then ended_at minus      *)
(* started_at; calls ended by DialEnd with busy, no_answer or failed       *)
(* included.                                                               *)
C36_DurationSetWhenEnded ==
    \A k \in CallIds :
        LET call == calls[k]
            both == call.started_at # NoTime /\ call.ended_at # NoTime
        IN  /\ both <=> call.duration_seconds # NoTime
            /\ both => call.duration_seconds = call.ended_at - call.started_at

(* The order of C37: priority descending, next_contact_date ascending with *)
(* nulls last, last_contacted ascending with nulls first, id ascending     *)
LeadPrecedes(a, b) ==
    LET na == LeadNextContactDate(a) = NoTime
        nb == LeadNextContactDate(b) = NoTime
    IN
    IF LeadPriority(a) # LeadPriority(b) THEN LeadPriority(a) > LeadPriority(b)
    ELSE IF na # nb THEN nb
    ELSE IF LeadNextContactDate(a) # LeadNextContactDate(b)
    THEN LeadNextContactDate(a) < LeadNextContactDate(b)
    ELSE IF last_contacted[a] # last_contacted[b]
    THEN last_contacted[a] < last_contacted[b]
    ELSE a <= b

(* C37: the lead a dialer iteration gets from get_next_lead is the head of *)
(* the eligible leads in that order; no eligible lead of strictly higher   *)
(* priority is passed over.                                                *)
C37_NextLeadIsHeadOfOrder ==
    [][ Len(calls') > Len(calls) =>
          \A l \in LeadIds :
              LeadValid(1, l) => LeadPrecedes(calls'[Len(calls')].lead_id, l)
      ]_vars

----------------------------------------------------------------------------
(* The Turbo dialer of a campaign with two assigned agents *)

TurboRow == [CampaignRow("turbo", 2, 0) EXCEPT !.agents = <<1, 2>>]

InitTurbo ==
    /\ campaign = TurboRow
    /\ now = 0
    /\ calls = <<>>
    /\ call_events = <<>>
    /\ agent_statuses = <<>>
    /\ active_campaigns = {}
    /\ dialer_stats = <<>>
    /\ active_calls = <<>>
    /\ ami_out = <<>>
    /\ last_contacted = [l \in LeadIds |-> NoTime]
    /\ last = Last("init", "", None)
    /\ calc = NoCalc
    /\ call_ended = [k \in 1..MaxCalls |-> 0]
    /\ hangups = [ch \in Channels |-> [count |-> 0, at |-> NoTime]]
    /\ cycle = NoCycle
    /\ NoLife
    /\ ami = InitAmi
    /\ reader = InitReader
    /\ trail = NoTrail

NextTurbo ==
    /\ \/ Tick
       \/ Commands
       \/ \E c \in Campaigns, ok \in BOOLEAN : TurboTick(c, ok, "none")
    /\ UNCHANGED <<campaign, calc, hangups, cycle, lifeVars, ami, reader, trail>>

SpecTurbo == InitTurbo /\ [][NextTurbo]_vars

(* AgentStatus.last_call_end of a tracked agent *)
LastCallEnd(a) ==
    IF a \in DOMAIN agent_statuses THEN agent_statuses[a].last_call_end
    ELSE NoTime

(* C38: the agents get_available_agents returns are the assigned agents    *)
(* whose status is available, by ascending last_call_end, so the agent the *)
(* Turbo dialer takes (agents[0]) is the available agent idle the longest. *)
C38_TurboTakesLongestIdleAgent ==
    [][ Len(calls') > Len(calls) =>
          LET a == calls'[Len(calls')].agent_id IN
          /\ IsAssigned(1, a)
          /\ \A b \in Range(GetAvailableAgents(agent_statuses, 1)) :
                (LastCallEnd(a) # NoTime /\ LastCallEnd(b) # NoTime)
                    => LastCallEnd(a) <= LastCallEnd(b)
      ]_vars

(* C39: a Newchannel event for an in-flight call appends exactly one       *)
(* CallEvent for that call and leaves the Call's status and timestamps and *)
(* the agent state unchanged.                                              *)
C39_NewchannelAppendsOneEvent ==
    [][ \A k \in 1..MaxCalls, variable \in BOOLEAN :
          HandleNewChannel(k, variable) =>
              /\ call_events'[k] = call_events[k] + 1
              /\ calls' = calls
              /\ agent_statuses' = agent_statuses ]_vars

(* C40: the waiter table holds only ActionIDs of actions that were written *)
(* to the socket and are not answered yet: a send_action whose socket      *)
(* write fails leaves no response waiter registered for its ActionID.      *)
C40_FailedSendLeavesNoWaiter ==
    [][ AmiSendAction(TRUE, FALSE)
            => ami'.response_handlers = ami.response_handlers ]_vars

============================================================================
